---- MODULE Spec2Model ----
(***************************************************************************)
(* Model of the moderation ledger of moder-telegram                        *)
(* (src/moder_telegram/storage.py): the SQLite tables bans, mutes, warns   *)
(* and audit, and the functions that read and write them.                  *)
(*                                                                         *)
(* Spec      every storage function is one atomic step: this is how the    *)
(*           bot calls them (synchronous calls from a single event loop).  *)
(* SpecConc  the writing functions called from several workers on a store  *)
(*           that init_db has set up, interleaved at the level of their    *)
(*           SQL statements and commits, with storage faults possible at   *)
(*           every step.                                                   *)
(* SpecFresh the same on a database file that does not exist yet, with     *)
(*           init_db among the calls, making its tables one by one.        *)
(* SpecBot   the bot (src/moder_telegram/app.py): the message handler, the *)
(*           command handler and the audit notification tasks, which reach *)
(*           the ledger through the storage functions.                     *)
(***************************************************************************)
EXTENDS Integers, Sequences, FiniteSets, Bags, TLC

(* ----------------------------- bounds ---------------------------------- *)
MaxOps    == 3      \* storage calls made in one run
MaxCalls  == 2      \* storage calls made by the workers of SpecConc
MaxClock  == 1      \* readings of the wall clock are 0..MaxClock
MaxAudit  == 2      \* rows in the audit table
NumWorkers == 2     \* concurrent callers in SpecConc
MaxEvents == 2      \* updates handled by the bot in one run of SpecBot
MaxRecords == 1     \* audit records the handlers add in one run of SpecBot
MaxWaiting == 1     \* handlers of SpecBot suspended at an await at one time

(* ------------------------- program constants --------------------------- *)
DefaultLimit == 50  \* get_audit(limit=50)

(* Python None / SQL NULL for the nullable integer columns and arguments;  *)
(* every real id of the model is >= 0.                                     *)
NULL == -1
NoDetails == "NULL"  \* details=None

Users     == {1, 2}
Chats     == {0, 1}
Keys      == Chats \X Users            \* <<chat_id, user_id>>
Workers   == 1..NumWorkers

\* the <<user_id, chat_id>> arguments the keyed functions are called with
\* (chat_id NULL when omitted): two chats of user 1, two users of chat 1
CallArgs  == {<<1, NULL>>, <<1, 0>>, <<1, 1>>, <<2, 1>>}

\* the <<action, user_id, admin_id, details, chat_id>> arguments log_action
\* is called with
LogArgs   == {<<"ban", 1, 99, NoDetails, 1>>, <<"warn", 1, 99, "x", NULL>>,
              <<"unban", 1, 99, NoDetails, 0>>, <<"warn", 2, 99, "x", 1>>,
              <<"plaint", NULL, 98, "x", NULL>>}

\* SpecConc: the callers contend for the key <<1, 1>>
ConcCallArgs == {<<1, 1>>}
StartCounts  == {0, 1}    \* warn counts of the key when a run of SpecConc starts
ConcLogArgs  == {<<"ban", 1, 99, NoDetails, 1>>, <<"warn", 1, 99, "x", NULL>>}

VARIABLES
  schema,   \* the tables that exist in the database file
  bans,     \* rows of table bans:  [chat_id, user_id, banned_at]
  mutes,    \* rows of table mutes: [chat_id, user_id, muted_at]
  warns,    \* rows of table warns: [chat_id, user_id, count]
  audit,    \* rows of table audit in rowid order
  clock,    \* current reading of datetime.now(timezone.utc)
  nops,     \* number of storage calls started so far
  last,     \* the call that ended last, its arguments and its outcome
  returned, \* per key: total returned by the last warn_user that returned normally
  pc,       \* SpecConc: per worker, the statement it is about to run, or
            \* "return" after its commit, "raise" after its rollback
  loc,      \* SpecConc: per worker, the locals of its call
  writer,   \* SpecConc: the worker whose connection holds the write lock, or NULL
  okwarns,  \* SpecConc: per key, the count at the start of the run plus the
            \* warn_user calls that returned normally
  logged,   \* SpecConc: what the log_action calls that returned normally
            \* were asked to record, in the order of their return
  DB_PATH,  \* SpecBot: app.DB_PATH, the value of the environment variable
  MODERATION_CHAT_IDS, \* SpecBot: the ids _get_moderation_chats() returns
  nev,      \* SpecBot: number of updates handed to the handlers so far
  hlast,    \* SpecBot: the handler that ran last, its update and what it did
  waiting,  \* SpecBot: the handlers suspended at an await (a bag), each as
            \* its update and what it did so far
  tasks,    \* SpecBot: per audit chat, the _safe_send_audit tasks scheduled
            \* and not finished
  failed,   \* SpecBot: audit chats a notification to which has failed
  in_text,  \* SpecText: the text is_bad_message is called with
  in_banned,\* SpecText: the banned list it is called with
  verdict   \* SpecText: what the call did: "none" before it, then "true",
            \* "false", or "error" when it raised

dbvars == <<schema, bans, mutes, warns, audit>>
cvars  == <<pc, loc, writer, okwarns, logged>>
bvars  == <<DB_PATH, MODERATION_CHAT_IDS, nev, hlast, waiting, tasks, failed>>
tvars  == <<in_text, in_banned, verdict>>
vars   == <<schema, bans, mutes, warns, audit, clock, nops, last, returned,
            pc, loc, writer, okwarns, logged,
            DB_PATH, MODERATION_CHAT_IDS, nev, hlast, waiting, tasks, failed,
            in_text, in_banned, verdict>>

(* ------------------------------ helpers -------------------------------- *)
\* the tables of the ledger, in the order init_db creates them
CreateOrder == <<"bans", "warns", "mutes", "audit">>
Tables      == {CreateOrder[i] : i \in 1..4}

\* the table a storage function reads or writes
TableOf(op) ==
  CASE op \in {"ban_user", "unban_user", "is_banned"}  -> "bans"
    [] op \in {"mute_user", "unmute_user", "is_muted"} -> "mutes"
    [] op \in {"warn_user", "get_warn_count"}          -> "warns"
    [] op \in {"log_action", "get_audit"}              -> "audit"

\* stands for a DB_PATH that names a file, such as "moder.db": the handlers
\* pass it where the storage functions expect chat_id, and int(chat_id)
\* raises ValueError
DbFile == -2

\* int(chat_id) raises
IntFails(chat_id) == chat_id = DbFile

\* mutant: an omitted chat_id is stored and looked up as it is (NULL)
CidOrZero_NoDefault(chat_id) == chat_id

\* cid = 0 if chat_id is None else int(chat_id)
CidOrZero(chat_id) == IF chat_id = NULL THEN 0 ELSE chat_id

\* mutant: an omitted chat_id becomes the sentinel 0
CidOrNone_Sentinel(chat_id) == IF chat_id = NULL THEN 0 ELSE chat_id

\* cid = None if chat_id is None else int(chat_id)
CidOrNone(chat_id) == chat_id

\* SQL "col = ?": never true when either side is NULL
SqlEq(col, val) == col # NULL /\ val # NULL /\ col = val

\* rows of a keyed table matching "WHERE chat_id = ? AND user_id = ?"
RowsOf(table, cid, uid) ==
  {r \in table : SqlEq(r.chat_id, cid) /\ SqlEq(r.user_id, uid)}

\* mutant: a plain INSERT into a table without the primary key
InsertOrReplace_NoReplace(table, row) == table \cup {row}

\* "INSERT OR REPLACE": the row with the same primary key is removed first
InsertOrReplace(table, row) ==
  (table \ RowsOf(table, row.chat_id, row.user_id)) \cup {row}

\* "DELETE FROM t WHERE chat_id = ? AND user_id = ?"
DeleteWhere(table, cid, uid) == table \ RowsOf(table, cid, uid)

\* AUTOINCREMENT rowid: one more than the largest id ever used
NextId(a) == Len(a) + 1

\* a call, its arguments and its outcome ("ok": returned ret, "fault": raised)
Outcome(op, action, user_id, admin_id, details, chat_id, status, ret) ==
  [op |-> op, action |-> action, user_id |-> user_id, admin_id |-> admin_id,
   details |-> details, chat_id |-> chat_id, status |-> status, ret |-> ret]

NoCall == Outcome("none", "none", NULL, NULL, NoDetails, NULL, "ok", NULL)

Returned(op, user_id, chat_id, ret) ==
  Outcome(op, "none", user_id, NULL, NoDetails, chat_id, "ok", ret)

Raised(op, user_id, chat_id) ==
  Outcome(op, "none", user_id, NULL, NoDetails, chat_id, "fault", NULL)

(* ------------------------------ queries -------------------------------- *)
\* the query op called with chat_id raises: int(chat_id) fails (ValueError)
\* or the SELECT finds no table (sqlite3.OperationalError)
QueryRaises(op, chat_id) == IntFails(chat_id) \/ TableOf(op) \notin schema

\* get_stats raises: its first SELECT reads bans, its second warns
StatsRaises(chat_id) ==
  IntFails(chat_id) \/ "bans" \notin schema \/ "warns" \notin schema

is_banned(user_id, chat_id) ==
  RowsOf(bans, CidOrZero(chat_id), user_id) # {}

is_muted(user_id, chat_id) ==
  RowsOf(mutes, CidOrZero(chat_id), user_id) # {}

\* mutant: row[0] is returned whether or not there is a row (None without one)
get_warn_count_NoDefault(user_id, chat_id) ==
  LET rows == RowsOf(warns, CidOrZero(chat_id), user_id)
  IN  IF rows = {} THEN NULL ELSE (CHOOSE r \in rows : TRUE).count

get_warn_count(user_id, chat_id) ==
  LET rows == RowsOf(warns, CidOrZero(chat_id), user_id)
  IN  IF rows = {} THEN 0 ELSE (CHOOSE r \in rows : TRUE).count

get_stats(chat_id) ==
  LET cid == CidOrNone(chat_id)
  IN  IF cid = NULL
      THEN <<Cardinality(bans),
             Cardinality({r \in warns : r.count > 0})>>
      ELSE <<Cardinality({r \in bans : SqlEq(r.chat_id, cid)}),
             Cardinality({r \in warns : SqlEq(r.chat_id, cid) /\ r.count > 0})>>

\* "ORDER BY timestamp DESC" over rows given in rowid order: r goes after
\* every row whose timestamp is not smaller, so rows with equal timestamps
\* stay in rowid order (what the SQLite sorter of this build produces).
RECURSIVE InsertDesc(_, _)
InsertDesc(s, r) ==
  IF s = <<>> THEN <<r>>
  ELSE IF Head(s).timestamp >= r.timestamp
       THEN <<Head(s)>> \o InsertDesc(Tail(s), r)
       ELSE <<r>> \o s

RECURSIVE OrderByTimestampDesc(_)
OrderByTimestampDesc(s) ==
  IF s = <<>> THEN <<>>
  ELSE InsertDesc(OrderByTimestampDesc(SubSeq(s, 1, Len(s) - 1)), s[Len(s)])

\* mutant: LIMIT keeps the end of the sorted rows
Limit_Tail(s, n) ==
  IF n < 0 \/ n >= Len(s) THEN s ELSE SubSeq(s, Len(s) - n + 1, Len(s))

\* "LIMIT ?": a negative limit means no limit
Limit(s, n) ==
  IF n < 0 \/ n >= Len(s) THEN s ELSE SubSeq(s, 1, n)

\* the columns get_audit selects (chat_id is not among them)
AuditTuple(r) ==
  <<r.id, r.action, r.user_id, r.admin_id, r.timestamp, r.details>>

\* mutant: the chat filter is lost, every record of the user is selected
AuditWhere_AnyChat(user_id, cid) ==
  SelectSeq(audit, LAMBDA r : SqlEq(r.user_id, user_id))

\* the rows "WHERE user_id = ?" or "WHERE user_id = ? AND chat_id = ?" selects
AuditWhere(user_id, cid) ==
  SelectSeq(audit, LAMBDA r : SqlEq(r.user_id, user_id)
                              /\ (cid = NULL \/ SqlEq(r.chat_id, cid)))

get_audit(user_id, limit, chat_id) ==
  LET rows == Limit(OrderByTimestampDesc(AuditWhere(user_id, CidOrNone(chat_id))),
                    limit)
  IN  [i \in 1..Len(rows) |-> AuditTuple(rows[i])]

(* --------------------------- SQL statements ---------------------------- *)
\* mutant: a plain INSERT into a table bans without its primary key
StmtBan_Append(table, user_id, chat_id, now) ==
  table \cup {[chat_id |-> CidOrZero(chat_id), user_id |-> user_id,
               banned_at |-> now]}

\* INSERT OR REPLACE INTO bans(chat_id, user_id, banned_at) VALUES(cid, user_id, now)
StmtBan(table, user_id, chat_id, now) ==
  InsertOrReplace(table, [chat_id |-> CidOrZero(chat_id), user_id |-> user_id,
                          banned_at |-> now])

\* mutant: DELETE FROM bans WHERE user_id = user_id (chat filter lost)
StmtUnban_AnyChat(table, user_id, chat_id) ==
  {r \in table : r.user_id # user_id}

\* DELETE FROM bans WHERE chat_id = cid AND user_id = user_id
StmtUnban(table, user_id, chat_id) ==
  DeleteWhere(table, CidOrZero(chat_id), user_id)

\* mutant: the row is written under the global scope 0 whatever chat_id is
StmtMute_GlobalChat(table, user_id, chat_id, now) ==
  (table \ {r \in table : r.chat_id = 0 /\ r.user_id = user_id})
    \cup {[chat_id |-> 0, user_id |-> user_id, muted_at |-> now]}

\* INSERT OR REPLACE INTO mutes(chat_id, user_id, muted_at) VALUES(cid, user_id, now)
StmtMute(table, user_id, chat_id, now) ==
  InsertOrReplace(table, [chat_id |-> CidOrZero(chat_id), user_id |-> user_id,
                          muted_at |-> now])

\* mutant: DELETE FROM mutes WHERE chat_id = cid (user filter lost)
StmtUnmute_AnyUser(table, user_id, chat_id) ==
  {r \in table : r.chat_id # CidOrZero(chat_id)}

\* DELETE FROM mutes WHERE chat_id = cid AND user_id = user_id
StmtUnmute(table, user_id, chat_id) ==
  DeleteWhere(table, CidOrZero(chat_id), user_id)

\* SELECT count FROM warns WHERE ...; fetchone(): the count, or NULL for None
WarnSelect(table, user_id, chat_id) ==
  LET rows == RowsOf(table, CidOrZero(chat_id), user_id)
  IN  IF rows = {} THEN NULL ELSE (CHOOSE r \in rows : TRUE).count

\* mutant: the increment is forgotten
WarnTotal_Stale(row) == IF row = NULL THEN 1 ELSE row

\* total = 1 if row is None else row[0] + 1
WarnTotal(row) == IF row = NULL THEN 1 ELSE row + 1

\* the INSERT of warn_user violates the primary key (sqlite3.IntegrityError)
WarnConflict(table, user_id, chat_id, row) ==
  row = NULL /\ RowsOf(table, CidOrZero(chat_id), user_id) # {}

\* mutant: the UPDATE starts the count again at 1
StmtWarn_Restart(table, user_id, chat_id, row) ==
  IF row = NULL
  THEN table \cup {[chat_id |-> CidOrZero(chat_id), user_id |-> user_id,
                    count |-> 1]}
  ELSE {IF SqlEq(r.chat_id, CidOrZero(chat_id)) /\ SqlEq(r.user_id, user_id)
        THEN [r EXCEPT !.count = 1] ELSE r : r \in table}

\* INSERT INTO warns ... VALUES(cid, user_id, 1)  when row is None, else
\* UPDATE warns SET count = total WHERE chat_id = cid AND user_id = user_id
StmtWarn(table, user_id, chat_id, row) ==
  IF row = NULL
  THEN table \cup {[chat_id |-> CidOrZero(chat_id), user_id |-> user_id,
                    count |-> 1]}
  ELSE {IF SqlEq(r.chat_id, CidOrZero(chat_id)) /\ SqlEq(r.user_id, user_id)
        THEN [r EXCEPT !.count = WarnTotal(row)] ELSE r : r \in table}

\* mutant: the newest row is overwritten instead of a row being added
StmtLog_Overwrite(table, action, user_id, admin_id, details, chat_id, now) ==
  LET row == [id |-> IF table = <<>> THEN 1 ELSE Len(table),
              chat_id |-> CidOrNone(chat_id), action |-> action,
              user_id |-> user_id, admin_id |-> admin_id, timestamp |-> now,
              details |-> details]
  IN  IF table = <<>> THEN <<row>> ELSE [table EXCEPT ![Len(table)] = row]

\* INSERT INTO audit(chat_id, action, user_id, admin_id, timestamp, details)
StmtLog(table, action, user_id, admin_id, details, chat_id, now) ==
  Append(table, [id |-> NextId(table), chat_id |-> CidOrNone(chat_id),
                 action |-> action, user_id |-> user_id,
                 admin_id |-> admin_id, timestamp |-> now,
                 details |-> details])

(* ------------------- Spec: every call is one step ---------------------- *)
Counted == nops < MaxOps /\ nops' = nops + 1

\* sqlite3.OperationalError "no such table": the call raises, nothing changes
NoSuchTable(op, user_id, chat_id) ==
  /\ TableOf(op) \notin schema
  /\ last' = Raised(op, user_id, chat_id)
  /\ UNCHANGED <<dbvars, returned>>

\* mutant: the tables are dropped and created again
init_db_Recreate(n) ==
  /\ schema' = schema \cup {CreateOrder[i] : i \in 1..n}
  /\ bans' = {} /\ mutes' = {} /\ warns' = {} /\ audit' = <<>>
  /\ last' = IF n = 4 THEN Returned("init_db", NULL, NULL, NULL)
             ELSE Raised("init_db", NULL, NULL)
  /\ UNCHANGED <<clock, nops, returned, cvars, bvars, tvars>>

\* four times CREATE TABLE IF NOT EXISTS, then commit. A CREATE TABLE is
\* not held in a transaction: the table is in the file as soon as the
\* statement has run. n statements run; with n < 4 the next one (or, with
\* n = 0, the connect) raises and the call with it.
\* run() calls init_db before the first handler starts and goes on if it
\* raises.
init_db(n) ==
  /\ schema' = schema \cup {CreateOrder[i] : i \in 1..n}
  /\ last' = IF n = 4 THEN Returned("init_db", NULL, NULL, NULL)
             ELSE Raised("init_db", NULL, NULL)
  /\ UNCHANGED <<bans, mutes, warns, audit, clock, nops, returned, cvars, bvars, tvars>>

\* now = datetime.now(timezone.utc): the reading t is the last one or a
\* later one (the wall clock moves on between two readings, and it need
\* not: two calls can read the same value)
Now(t) == t >= clock /\ t <= MaxClock /\ clock' = t

ban_user(user_id, chat_id, t) ==
  /\ Counted
  /\ Now(t)
  /\ \/ NoSuchTable("ban_user", user_id, chat_id)
     \/ /\ "bans" \in schema
        /\ bans' = StmtBan(bans, user_id, chat_id, t)
        /\ last' = Returned("ban_user", user_id, chat_id, NULL)
        /\ UNCHANGED <<schema, mutes, warns, audit, returned>>
  /\ UNCHANGED <<cvars, bvars, tvars>>

\* mutant: unban lifts every restriction of the key, the mute included
unban_user_LiftsMute(user_id, chat_id) ==
  /\ Counted
  /\ \/ NoSuchTable("unban_user", user_id, chat_id)
     \/ /\ "bans" \in schema
        /\ bans' = DeleteWhere(bans, CidOrZero(chat_id), user_id)
        /\ mutes' = DeleteWhere(mutes, CidOrZero(chat_id), user_id)
        /\ last' = Returned("unban_user", user_id, chat_id, NULL)
        /\ UNCHANGED <<schema, warns, audit, returned>>
  /\ UNCHANGED <<clock, cvars, bvars, tvars>>

unban_user(user_id, chat_id) ==
  /\ Counted
  /\ \/ NoSuchTable("unban_user", user_id, chat_id)
     \/ /\ "bans" \in schema
        /\ bans' = StmtUnban(bans, user_id, chat_id)
        /\ last' = Returned("unban_user", user_id, chat_id, NULL)
        /\ UNCHANGED <<schema, mutes, warns, audit, returned>>
  /\ UNCHANGED <<clock, cvars, bvars, tvars>>

mute_user(user_id, chat_id, t) ==
  /\ Counted
  /\ Now(t)
  /\ \/ NoSuchTable("mute_user", user_id, chat_id)
     \/ /\ "mutes" \in schema
        /\ mutes' = StmtMute(mutes, user_id, chat_id, t)
        /\ last' = Returned("mute_user", user_id, chat_id, NULL)
        /\ UNCHANGED <<schema, bans, warns, audit, returned>>
  /\ UNCHANGED <<cvars, bvars, tvars>>

\* mutant: the mute of a banned key cannot be lifted
unmute_user_UnlessBanned(user_id, chat_id) ==
  /\ Counted
  /\ \/ NoSuchTable("unmute_user", user_id, chat_id)
     \/ /\ "mutes" \in schema
        /\ mutes' = IF is_banned(user_id, chat_id) THEN mutes
                     ELSE StmtUnmute(mutes, user_id, chat_id)
        /\ last' = Returned("unmute_user", user_id, chat_id, NULL)
        /\ UNCHANGED <<schema, bans, warns, audit, returned>>
  /\ UNCHANGED <<clock, cvars, bvars, tvars>>

unmute_user(user_id, chat_id) ==
  /\ Counted
  /\ \/ NoSuchTable("unmute_user", user_id, chat_id)
     \/ /\ "mutes" \in schema
        /\ mutes' = StmtUnmute(mutes, user_id, chat_id)
        /\ last' = Returned("unmute_user", user_id, chat_id, NULL)
        /\ UNCHANGED <<schema, bans, warns, audit, returned>>
  /\ UNCHANGED <<clock, cvars, bvars, tvars>>

warn_user(user_id, chat_id) ==
  /\ Counted
  /\ \/ NoSuchTable("warn_user", user_id, chat_id)
     \/ /\ "warns" \in schema
        /\ LET row == WarnSelect(warns, user_id, chat_id)
           IN  /\ warns' = StmtWarn(warns, user_id, chat_id, row)
               /\ last' = Returned("warn_user", user_id, chat_id, WarnTotal(row))
               /\ returned' = [returned EXCEPT
                     ![<<CidOrZero(chat_id), user_id>>] = WarnTotal(row)]
        /\ UNCHANGED <<schema, bans, mutes, audit>>
  /\ UNCHANGED <<clock, cvars, bvars, tvars>>

log_action(action, user_id, admin_id, details, chat_id, t) ==
  /\ Counted
  /\ Now(t)
  /\ Len(audit) < MaxAudit
  /\ \/ /\ "audit" \notin schema
        /\ last' = Outcome("log_action", action, user_id, admin_id, details,
                           chat_id, "fault", NULL)
        /\ UNCHANGED <<dbvars, returned>>
     \/ /\ "audit" \in schema
        /\ audit' = StmtLog(audit, action, user_id, admin_id, details,
                            chat_id, t)
        /\ last' = Outcome("log_action", action, user_id, admin_id, details,
                           chat_id, "ok", NULL)
        /\ UNCHANGED <<schema, bans, mutes, warns, returned>>
  /\ UNCHANGED <<cvars, bvars, tvars>>

\* ids _get_audit_chats() returns (AUDIT_CHAT_IDS) and _get_admins() (ADMINS)
AUDIT_CHAT_IDS == {71, 72}
ADMINS == {99}

\* Python None for a text or a caption (a text is a sequence of
\* one-character strings)
NoText == <<"None">>

\* no update handled yet
NoUpdate == [kind |-> "none", cmd |-> "none", chat |-> NULL, sender |-> NULL,
             via |-> "none", target |-> NULL, reason |-> NoDetails,
             is_bot |-> FALSE, text |-> NoText, caption |-> NoText,
             stage |-> "none", deleted |-> FALSE, at |-> "end"]

\* the fields a log_action call asks to record
RecordOf(l) ==
  [chat_id |-> CidOrNone(l.chat_id), action |-> l.action,
   user_id |-> l.user_id, admin_id |-> l.admin_id, timestamp |-> l.now,
   details |-> l.details]

Idle == [op |-> "none", user_id |-> NULL, chat_id |-> NULL, action |-> "none",
         admin_id |-> NULL, details |-> NoDetails, now |-> 0, row |-> NULL,
         pend |-> {}, alone |-> FALSE, snap |-> <<>>, made |-> 0]

\* banned=None: a list that holds the one entry NoText
NoList == <<NoText>>

\* the state before the first call of a run, with the tables made so far
\* and the warn rows that earlier runs left in the file; t and b are the
\* arguments a later call of is_bad_message is made with
InitStore(made, warned, path, chats, t, b) ==
  /\ schema = made
  /\ bans = {} /\ mutes = {} /\ warns = warned
  /\ audit = <<>>
  /\ clock = 0
  /\ nops = 0
  /\ last = NoCall
  /\ returned = [k \in Keys |-> 0]
  /\ pc = [w \in Workers |-> "idle"]
  /\ loc = [w \in Workers |-> Idle]
  /\ writer = NULL
  /\ okwarns = [k \in Keys |->
                  IF \E r \in warned : <<r.chat_id, r.user_id>> = k
                  THEN (CHOOSE r \in warned : <<r.chat_id, r.user_id>> = k).count
                  ELSE 0]
  /\ logged = <<>>
  /\ DB_PATH = path
  /\ MODERATION_CHAT_IDS = chats
  /\ nev = 0
  /\ hlast = NoUpdate
  /\ waiting = EmptyBag
  /\ tasks = [c \in AUDIT_CHAT_IDS |-> 0]
  /\ failed = {}
  /\ in_text = t
  /\ in_banned = b
  /\ verdict = "none"

\* a database file that does not exist yet
InitState(path, chats, t, b) == InitStore({}, {}, path, chats, t, b)

InitWith(path, chats) == InitState(path, chats, NoText, NoList)

\* the ledger is used with DB_PATH unset and no moderation chat configured
Init == InitWith(NULL, {})

Next ==
  \/ \E n \in 0..4 : init_db(n)
  \/ \E a \in CallArgs, t \in 0..MaxClock : ban_user(a[1], a[2], t)
  \/ \E a \in CallArgs : unban_user(a[1], a[2])
  \/ \E a \in CallArgs, t \in 0..MaxClock : mute_user(a[1], a[2], t)
  \/ \E a \in CallArgs : unmute_user(a[1], a[2])
  \/ \E a \in CallArgs : warn_user(a[1], a[2])
  \/ \E a \in LogArgs, t \in 0..MaxClock :
       log_action(a[1], a[2], a[3], a[4], a[5], t)

Spec == Init /\ [][Next]_vars

(* ------------- SpecConc: calls interleaved by statement ---------------- *)
(* Every call opens its own connection (sqlite3.connect, isolation_level   *)
(* ""): a SELECT runs outside any transaction and sees the committed       *)
(* tables; the first INSERT/UPDATE/DELETE opens a transaction and takes    *)
(* the database write lock, which conn.commit() releases. The statement's  *)
(* effect is private to the connection until the commit.                   *)

KeyedOps == {"ban_user", "unban_user", "mute_user", "unmute_user", "warn_user"}

\* the table as the call's write statement leaves it
StmtOf(l) ==
  CASE l.op = "ban_user"    -> StmtBan(bans, l.user_id, l.chat_id, l.now)
    [] l.op = "unban_user"  -> StmtUnban(bans, l.user_id, l.chat_id)
    [] l.op = "mute_user"   -> StmtMute(mutes, l.user_id, l.chat_id, l.now)
    [] l.op = "unmute_user" -> StmtUnmute(mutes, l.user_id, l.chat_id)
    [] l.op = "warn_user"   -> StmtWarn(warns, l.user_id, l.chat_id, l.row)
    [] OTHER -> StmtLog(audit, l.action, l.user_id, l.admin_id, l.details,
                        l.chat_id, l.now)

\* the value the call returns
RetOf(l) == IF l.op = "warn_user" THEN WarnTotal(l.row) ELSE NULL

\* mutant: writers do not exclude each other
CanWrite_NoLock(w) == TRUE

\* the connection can take the write lock
CanWrite(w) == writer = NULL

\* the functions that read the clock: datetime.now(timezone.utc)
ClockReaders == {"ban_user", "mute_user", "log_action"}

\* worker w enters a storage function; ban_user, mute_user and log_action
\* read the clock before they connect. snap remembers the tables as they
\* are at the call, for as long as no other call overlaps with this one.
\* (Calls of init_db are not counted among the MaxCalls calls of a run.)
Call(w, op, action, user_id, admin_id, details, chat_id, t) ==
  /\ pc[w] = "idle"
  /\ \A v \in Workers : v < w => pc[v] # "idle"
  /\ Now(t)
  /\ op \notin ClockReaders => t = clock
  /\ IF op = "init_db" THEN nops' = nops
     ELSE nops < MaxCalls /\ nops' = nops + 1
  /\ op = "log_action" =>
       Len(audit) + Cardinality({v \in Workers : loc[v].op = "log_action"})
         < MaxAudit
  /\ LET quiet == \A v \in Workers : pc[v] = "idle"
         mine == [op |-> op, user_id |-> user_id, chat_id |-> chat_id,
                  action |-> action, admin_id |-> admin_id,
                  details |-> details,
                  now |-> IF op \in ClockReaders THEN t ELSE 0,
                  row |-> NULL, pend |-> {}, alone |-> quiet,
                  snap |-> IF quiet THEN <<bans, mutes, warns, audit>>
                           ELSE <<>>,
                  made |-> 0]
     IN  loc' = [v \in Workers |->
                   IF v = w THEN mine
                   ELSE IF pc[v] # "idle"
                        THEN [loc[v] EXCEPT !.alone = FALSE, !.snap = <<>>]
                        ELSE loc[v]]
  /\ pc' = [pc EXCEPT ![w] = CASE op = "init_db"   -> "create"
                               [] op = "warn_user" -> "select"
                               [] OTHER            -> "write"]
  /\ UNCHANGED <<dbvars, last, returned, writer, okwarns, logged, bvars, tvars>>

\* init_db: the next CREATE TABLE IF NOT EXISTS that finds its table
\* missing. The statement writes the file, which takes the write lock for
\* as long as it runs, and is committed by itself. The statements that find
\* their table there change nothing and are passed over on the way to it.
\* When no table is missing any more the call goes through what is left of
\* the statements and the conn.commit(), which has no transaction to commit,
\* and returns: a step of its own, after the one that made the last table.
Create(w) ==
  /\ pc[w] = "create"
  /\ LET missing == {i \in (loc[w].made + 1)..4 : CreateOrder[i] \notin schema}
         i == CHOOSE j \in missing : \A k \in missing : j <= k
         returns == missing = {}
     IN  /\ missing # {} => CanWrite(w)
         /\ schema' = IF missing = {} THEN schema
                      ELSE schema \cup {CreateOrder[i]}
         /\ IF returns
            THEN /\ pc' = [pc EXCEPT ![w] = "idle"]
                 /\ loc' = [loc EXCEPT ![w] = Idle]
                 /\ last' = Returned("init_db", NULL, NULL, NULL)
            ELSE /\ pc' = pc
                 /\ loc' = [loc EXCEPT ![w].made = i]
                 /\ last' = last
  /\ UNCHANGED <<bans, mutes, warns, audit, clock, nops, returned,
                 writer, okwarns, logged, bvars, tvars>>

\* warn_user: cur.execute("SELECT count ..."); row = cur.fetchone()
Select(w) ==
  /\ pc[w] = "select"
  /\ "warns" \in schema
  /\ loc' = [loc EXCEPT ![w].row =
               WarnSelect(warns, loc[w].user_id, loc[w].chat_id)]
  /\ pc' = [pc EXCEPT ![w] = "write"]
  /\ UNCHANGED <<dbvars, clock, nops, last, returned, writer, okwarns, logged, bvars, tvars>>

\* mutant: the statement already executed is committed on the way out
Raise_KeepsWrite(w) ==
  /\ pc' = [pc EXCEPT ![w] = "raise"]
  /\ loc' = [loc EXCEPT ![w].pend = {}, ![w].row = NULL, ![w].made = 0,
                        ![w].now = 0]
  /\ writer' = IF writer = w THEN NULL ELSE writer
  /\ LET l == loc[w]
         done == pc[w] = "commit"
     IN  /\ bans'  = IF done /\ l.op \in {"ban_user", "unban_user"}
                     THEN l.pend ELSE bans
         /\ mutes' = IF done /\ l.op \in {"mute_user", "unmute_user"}
                     THEN l.pend ELSE mutes
         /\ warns' = IF done /\ l.op = "warn_user" THEN l.pend ELSE warns
         /\ audit' = IF done /\ l.op = "log_action" THEN l.pend ELSE audit
  /\ UNCHANGED <<schema, clock, nops, last, returned, okwarns, logged, bvars, tvars>>

\* an exception is raised inside the with-block: sqlite3.Connection.__exit__
\* rolls the transaction back, which frees the write lock; the exception has
\* not left the function yet
Raise(w) ==
  /\ pc' = [pc EXCEPT ![w] = "raise"]
  /\ loc' = [loc EXCEPT ![w].pend = {}, ![w].row = NULL, ![w].made = 0,
                        ![w].now = 0]
  /\ writer' = IF writer = w THEN NULL ELSE writer
  /\ UNCHANGED <<dbvars, clock, nops, last, returned, okwarns, logged, bvars, tvars>>

\* the exception leaves the function: the call ends and its caller gets it
Raises(w) ==
  /\ pc[w] = "raise"
  /\ pc' = [pc EXCEPT ![w] = "idle"]
  /\ loc' = [loc EXCEPT ![w] = Idle]
  /\ last' = Outcome(loc[w].op, loc[w].action, loc[w].user_id,
                     loc[w].admin_id, loc[w].details, loc[w].chat_id,
                     "fault", NULL)
  /\ UNCHANGED <<dbvars, clock, nops, returned, writer, okwarns, logged, bvars, tvars>>

\* mutant: the connection is in autocommit mode, the statement's effect is
\* in the tables as soon as it has run
Write_Autocommit(w) ==
  /\ pc[w] = "write"
  /\ TableOf(loc[w].op) \in schema
  /\ CanWrite(w)
  /\ IF loc[w].op = "warn_user"
        /\ WarnConflict(warns, loc[w].user_id, loc[w].chat_id, loc[w].row)
     THEN Raise(w)
     ELSE /\ writer' = w
          /\ loc' = [loc EXCEPT ![w].pend = StmtOf(loc[w])]
          /\ pc' = [pc EXCEPT ![w] = "commit"]
          /\ bans'  = IF loc[w].op \in {"ban_user", "unban_user"}
                      THEN StmtOf(loc[w]) ELSE bans
          /\ mutes' = IF loc[w].op \in {"mute_user", "unmute_user"}
                      THEN StmtOf(loc[w]) ELSE mutes
          /\ warns' = IF loc[w].op = "warn_user" THEN StmtOf(loc[w]) ELSE warns
          /\ audit' = IF loc[w].op = "log_action" THEN StmtOf(loc[w]) ELSE audit
          /\ UNCHANGED <<schema, clock, nops, last, returned, okwarns, logged, bvars, tvars>>

\* the INSERT / UPDATE / DELETE statement of the call
Write(w) ==
  /\ pc[w] = "write"
  /\ TableOf(loc[w].op) \in schema
  /\ CanWrite(w)
  /\ IF loc[w].op = "warn_user"
        /\ WarnConflict(warns, loc[w].user_id, loc[w].chat_id, loc[w].row)
     THEN Raise(w)
     ELSE /\ writer' = w
          /\ loc' = [loc EXCEPT ![w].pend = StmtOf(loc[w])]
          /\ pc' = [pc EXCEPT ![w] = "commit"]
          /\ UNCHANGED <<dbvars, clock, nops, last, returned, okwarns, logged, bvars, tvars>>

\* conn.commit(): the statement's effect is in the tables and the write lock
\* is free; the call has not returned yet
Commit(w) ==
  /\ pc[w] = "commit"
  /\ LET l == loc[w]
     IN  /\ bans'  = IF l.op \in {"ban_user", "unban_user"} THEN l.pend ELSE bans
         /\ mutes' = IF l.op \in {"mute_user", "unmute_user"} THEN l.pend ELSE mutes
         /\ warns' = IF l.op = "warn_user" THEN l.pend ELSE warns
         /\ audit' = IF l.op = "log_action" THEN l.pend ELSE audit
  /\ writer' = IF writer = w THEN NULL ELSE writer
  /\ pc' = [pc EXCEPT ![w] = "return"]
  /\ loc' = [loc EXCEPT ![w].pend = {}]
  /\ UNCHANGED <<schema, clock, nops, last, returned, okwarns, logged, bvars, tvars>>

\* the with-block is left and the call returns (warn_user: return total)
Return(w) ==
  /\ pc[w] = "return"
  /\ LET l == loc[w]
     IN  /\ last' = Outcome(l.op, l.action, l.user_id, l.admin_id, l.details,
                            l.chat_id, "ok", RetOf(l))
         /\ returned' = IF l.op = "warn_user"
                        THEN [returned EXCEPT
                                ![<<CidOrZero(l.chat_id), l.user_id>>] = RetOf(l)]
                        ELSE returned
         /\ okwarns' = IF l.op = "warn_user"
                       THEN [okwarns EXCEPT
                               ![<<CidOrZero(l.chat_id), l.user_id>>] = @ + 1]
                       ELSE okwarns
         /\ logged' = IF l.op = "log_action"
                      THEN Append(logged, RecordOf(l))
                      ELSE logged
  /\ pc' = [pc EXCEPT ![w] = "idle"]
  /\ loc' = [loc EXCEPT ![w] = Idle]
  /\ UNCHANGED <<dbvars, clock, nops, writer, bvars, tvars>>

\* a storage fault (sqlite3.Error: no such table, I/O error, disk full,
\* database is locked) at the statement the worker is about to run
Fault(w) ==
  /\ pc[w] \in {"create", "select", "write", "commit"}
  /\ Raise(w)

Step(w) ==
  \/ \E op \in KeyedOps, a \in ConcCallArgs, t \in 0..MaxClock :
        Call(w, op, "none", a[1], NULL, NoDetails, a[2], t)
  \/ \E a \in ConcLogArgs, t \in 0..MaxClock :
        Call(w, "log_action", a[1], a[2], a[3], a[4], a[5], t)
  \/ Select(w)
  \/ Write(w)
  \/ Commit(w)
  \/ Return(w)
  \/ Fault(w)
  \/ Raises(w)

\* the warn table of a file in which the key of ConcCallArgs has been warned
\* v times before
WarnedBefore(v) ==
  {[chat_id |-> a[2], user_id |-> a[1], count |-> v] :
     a \in {b \in ConcCallArgs : v > 0}}

\* SpecConc starts from a store that init_db has set up, in which the key
\* has been warned before or not, and the calls are those of the six
\* functions that write rows
InitConc ==
  \E v \in StartCounts :
     InitStore(Tables, WarnedBefore(v), NULL, {}, NoText, NoList)

NextConc == \E w \in Workers : Step(w)

SpecConc == InitConc /\ [][NextConc]_vars

(* SpecFresh: the same callers on a database file that does not exist yet; *)
(* init_db is one of the calls and makes the tables one by one while the    *)
(* other calls go on. (An init_db that finds the four tables writes nothing *)
(* and waits for nothing: it is one step, whatever the workers are doing.)  *)
NextFresh ==
  \/ NextConc
  \/ schema = Tables /\ \E n \in 0..4 : init_db(n)
  \/ \E w \in Workers :
       /\ schema # Tables
       /\ Call(w, "init_db", "none", NULL, NULL, NoDetails, NULL, clock)
  \/ \E w \in Workers : Create(w)

SpecFresh == Init /\ [][NextFresh]_vars

(* ------------------- the classifier (moderation.py) -------------------- *)
(* A text is a sequence of one-character strings, NoText when absent.       *)
LowerCase == <<"a", "b", "c", "d", "e", "f", "g", "h", "i", "j", "k", "l", "m",
               "n", "o", "p", "q", "r", "s", "t", "u", "v", "w", "x", "y", "z">>
UpperCase == <<"A", "B", "C", "D", "E", "F", "G", "H", "I", "J", "K", "L", "M",
               "N", "O", "P", "Q", "R", "S", "T", "U", "V", "W", "X", "Y", "Z">>
Digits    == {"0", "1", "2", "3", "4", "5", "6", "7", "8", "9"}

\* re.IGNORECASE: characters are compared in lower case
LowerLetters == {LowerCase[i] : i \in 1..26}
UpperLetters == {UpperCase[i] : i \in 1..26}
LowerOf == [ch \in UpperLetters |->
              LowerCase[CHOOSE i \in 1..26 : UpperCase[i] = ch]]
Lower(ch) == IF ch \in UpperLetters THEN LowerOf[ch] ELSE ch

\* \w
IsWordChar(ch) ==
  \/ Lower(ch) \in LowerLetters
  \/ ch \in Digits
  \/ ch = "_"

\* \b before position p of the text (p = Len(text) + 1: at its end)
Boundary(text, p) ==
  LET word(q) == q >= 1 /\ q <= Len(text) /\ IsWordChar(text[q])
  IN  word(p - 1) # word(p)

\* rf"\b{re.escape(token)}\b" matches at position i of the text
LiteralAt(text, token, i) ==
  /\ i + Len(token) - 1 <= Len(text)
  /\ \A j \in 1..Len(token) : Lower(text[i + j - 1]) = Lower(token[j])
  /\ Boundary(text, i)
  /\ Boundary(text, i + Len(token))

BANNED_WORDS == << <<"b", "a", "d", "w", "o", "r", "d">>,
                   <<"s", "p", "a", "m">>,
                   <<"s", "c", "a", "m">> >>

(* The pattern language of module re, as far as the model interprets it:    *)
(* literal characters, \-escapes (\b \B \A \Z \d \D \w \W \s \S \n \t \r  *)
(* \f \a \v, \1..\9, escaped punctuation), ".", "^", "$", "|", groups       *)
(* "(...)" and "(?:...)", and the repeats "+", "*", "?" with their lazy     *)
(* forms. A pattern with anything else that re accepts or may accept - a    *)
(* character set, a counted or possessive repeat, another extension of      *)
(* "(?", an octal escape, an escape with arguments - is Outside: the model  *)
(* leaves open what a call with such a pattern does. A pattern is a         *)
(* sequence of characters; the characters of the model are those of a TLA+  *)
(* string, letters and digits are ASCII.                                    *)
Quantifiers  == {"+", "*", "?"}
Specials     == {".", "^", "$", "+", "*", "?", "(", ")", "|", "[", "{"}
Whitespace   == {" ", "\t", "\n", "\r", "\f"}
ZeroWidthEscapes == {"b", "B", "A", "Z"}
KnownEscapes == {"b", "B", "A", "Z", "d", "D", "w", "W", "s", "S",
                 "n", "t", "r", "f", "a", "v"}
\* escapes that take arguments: \xhh, \uhhhh, \Uhhhhhhhh, \N{name}
ArgEscapes   == {"x", "u", "U", "N"}
HexDigits    == Digits \cup {"a", "b", "c", "d", "e", "f",
                             "A", "B", "C", "D", "E", "F"}
\* the characters that open an extension of "(?": groups with a name or a
\* flag, look-around, comments, conditions, atomic groups (":" opens the
\* plain group)
ExtChars     == {"P", "#", "=", "!", "<", "(", ">", "-",
                 "a", "i", "L", "m", "s", "t", "u", "x"}

\* the characters re.escape puts a backslash in front of
EscapedChars == {"(", ")", "[", "]", "{", "}", "?", "*", "+", "-", "|", "^",
                 "$", "\\", ".", "&", "~", "#", " ", "\t", "\n", "\r", "\f"}

\* re.escape(token)
RECURSIVE escape(_)
escape(token) ==
  IF token = <<>> THEN <<>>
  ELSE (IF Head(token) \in EscapedChars THEN <<"\\", Head(token)>>
        ELSE <<Head(token)>>) \o escape(Tail(token))

\* token.startswith("re:")
StartsWithRe(token) ==
  Len(token) >= 3 /\ token[1] = "r" /\ token[2] = "e" /\ token[3] = ":"

\* f"(?:{token[3:]})"
RawPart(token) ==
  <<"(", "?", ":">> \o SubSeq(token, 4, Len(token)) \o <<")">>

\* mutant: the token goes into the pattern as it is
LiteralPart_Unescaped(token) == <<"\\", "b">> \o token \o <<"\\", "b">>

\* rf"\b{re.escape(token)}\b"
LiteralPart(token) == <<"\\", "b">> \o escape(token) \o <<"\\", "b">>

\* "|".join(parts)
RECURSIVE Join(_)
Join(parts) ==
  IF Len(parts) = 1 THEN parts[1]
  ELSE parts[1] \o <<"|">> \o Join(Tail(parts))

\* the pattern _compile_pattern(banned) hands to re.compile
compile_pattern(banned) ==
  IF banned = <<>> THEN <<"$", "^">>
  ELSE Join([i \in 1..Len(banned) |->
               IF StartsWithRe(banned[i]) THEN RawPart(banned[i])
               ELSE LiteralPart(banned[i])])

\* the pattern read as tokens: "lit" a character that stands for itself,
\* "op" a special character, "esc" a backslash and the character after it,
\* "bad" a backslash at the end of the pattern
Tok(k, c) == [k |-> k, c |-> c]

RECURSIVE Tokens(_)
Tokens(p) ==
  IF p = <<>> THEN <<>>
  ELSE IF Head(p) = "\\"
       THEN IF Len(p) = 1 THEN <<Tok("bad", "\\")>>
            ELSE <<Tok("esc", p[2])>> \o Tokens(SubSeq(p, 3, Len(p)))
       ELSE <<Tok(IF Head(p) \in Specials THEN "op" ELSE "lit", Head(p))>>
              \o Tokens(Tail(p))

IsOp(t, c)  == t.k = "op" /\ t.c = c
IsQuant(t)  == t.k = "op" /\ t.c \in Quantifiers
IsLetter(c) == c \in LowerLetters \/ c \in UpperLetters
DigitVal(c) == CHOOSE n \in 0..9 : ToString(n) = c

\* q[i] is the "?" of "(?", the ":" of "(?:"
ExtMark(q, i)  == i > 1 /\ IsOp(q[i], "?") /\ IsOp(q[i - 1], "(")
ExtColon(q, i) == i > 2 /\ q[i] = Tok("lit", ":") /\ ExtMark(q, i - 1)

\* what the parser reads a "+", "*" or "?" as: the "?" of "(?" ("ext"), a
\* repeat ("quant"), or the mark right after a repeat that makes it lazy
\* ("?") or possessive ("+"); "none" for any other token
RECURSIVE Role(_, _)
Role(q, i) ==
  IF ~IsQuant(q[i]) THEN "none"
  ELSE IF ExtMark(q, i) THEN "ext"
  ELSE IF i > 1 /\ q[i].c = "?" /\ Role(q, i - 1) = "quant" THEN "lazy"
  ELSE IF i > 1 /\ q[i].c = "+" /\ Role(q, i - 1) = "quant" THEN "possessive"
  ELSE "quant"

\* q[i] is the "?" of a lazy repeat
LazyMark(q, i) == Role(q, i) = "lazy"

\* q[i] is a "{" that opens a counted repeat: {m}, {m,}, {,n}, {m,n}, {,}
RECURSIVE DigitsEnd(_, _)
DigitsEnd(q, j) ==
  IF j <= Len(q) /\ q[j].k = "lit" /\ q[j].c \in Digits
  THEN DigitsEnd(q, j + 1) ELSE j
CountedRepeat(q, i) ==
  /\ IsOp(q[i], "{")
  /\ ~(i < Len(q) /\ q[i + 1] = Tok("lit", "}"))
  /\ LET a == DigitsEnd(q, i + 1)
         b == IF a <= Len(q) /\ q[a] = Tok("lit", ",")
              THEN DigitsEnd(q, a + 1) ELSE a
     IN  b <= Len(q) /\ q[b] = Tok("lit", "}")

\* the n tokens after q[i] are hexadecimal digits
HexArgs(q, i, n) ==
  /\ i + n <= Len(q)
  /\ \A j \in (i + 1)..(i + n) : q[j].k = "lit" /\ q[j].c \in HexDigits

\* the pattern uses a construct the model does not interpret: a character
\* set, a counted or possessive repeat, an extension of "(?" other than
\* "(?:", an octal escape or a group number of two digits, an escape with
\* arguments
Outside(q) ==
  \E i \in 1..Len(q) :
    \/ IsOp(q[i], "[")
    \/ CountedRepeat(q, i)
    \/ Role(q, i) = "possessive"
    \/ ExtMark(q, i) /\ i < Len(q) /\ q[i + 1].k # "esc"
          /\ q[i + 1].c \in ExtChars
    \/ /\ q[i].k = "esc"
       /\ \/ q[i].c = "0"
          \/ q[i].c \in Digits /\ i < Len(q) /\ q[i + 1].k = "lit"
                /\ q[i + 1].c \in Digits
          \/ q[i].c = "x" /\ HexArgs(q, i, 2)
          \/ q[i].c = "u" /\ HexArgs(q, i, 4)
          \/ q[i].c = "U" /\ HexArgs(q, i, 8)
          \/ q[i].c = "N" /\ i < Len(q) /\ IsOp(q[i + 1], "{")

\* q[i] opens a capturing group; the number of the group
Capturing(q, i) == IsOp(q[i], "(") /\ ~(i < Len(q) /\ IsOp(q[i + 1], "?"))
GroupNo(q, i)   == Cardinality({j \in 1..i : Capturing(q, j)})

\* parentheses opened and not closed in q[lo..j-1]
Depth(q, lo, j) ==
  Cardinality({k \in lo..(j - 1) : IsOp(q[k], "(")})
    - Cardinality({k \in lo..(j - 1) : IsOp(q[k], ")")})

\* the ")" that closes the "(" at q[i], 0 if there is none
Close(q, i) ==
  LET c == {j \in (i + 1)..Len(q) : IsOp(q[j], ")") /\ Depth(q, i, j) = 1}
  IN  IF c = {} THEN 0 ELSE CHOOSE j \in c : \A k \in c : j <= k

ZeroWidth(t) ==
  IsOp(t, "^") \/ IsOp(t, "$") \/ (t.k = "esc" /\ t.c \in ZeroWidthEscapes)

\* re.compile(pattern) raises re.error, for a pattern that is not Outside:
\* a backslash at the end, unbalanced parentheses, "(?" followed by nothing
\* it knows, a repeat with nothing to repeat or right after a repeat, an
\* unknown or incomplete escape, a reference to a group that has not been
\* opened yet or is still open
re_error(q) ==
  \/ \E i \in 1..Len(q) : q[i].k = "bad"
  \/ \E j \in 1..(Len(q) + 1) : Depth(q, 1, j) < 0
  \/ Depth(q, 1, Len(q) + 1) # 0
  \/ \E i \in 1..Len(q) :
       /\ ExtMark(q, i)
       /\ \/ i = Len(q)
          \/ q[i + 1].k = "esc"
          \/ q[i + 1].c \notin ExtChars \cup {":"}
  \/ \E i \in 1..Len(q) :
       /\ Role(q, i) = "quant"
       /\ \/ i = 1
          \/ IsOp(q[i - 1], "(") \/ IsOp(q[i - 1], "|")
          \/ ExtColon(q, i - 1)
          \/ ZeroWidth(q[i - 1])
          \/ Role(q, i - 1) \in {"quant", "lazy", "possessive"}
  \/ \E i \in 1..Len(q) :
       /\ q[i].k = "esc"
       /\ \/ IsLetter(q[i].c) /\ q[i].c \notin KnownEscapes \cup ArgEscapes
          \/ q[i].c = "x" /\ ~HexArgs(q, i, 2)
          \/ q[i].c = "u" /\ ~HexArgs(q, i, 4)
          \/ q[i].c = "U" /\ ~HexArgs(q, i, 8)
          \/ q[i].c = "N" /\ ~(i < Len(q) /\ IsOp(q[i + 1], "{"))
          \/ /\ q[i].c \in Digits \ {"0"}
             /\ \/ DigitVal(q[i].c) > GroupNo(q, i)
                \/ \E o \in 1..i :
                     /\ Capturing(q, o) /\ GroupNo(q, o) = DigitVal(q[i].c)
                     /\ Close(q, o) > i

\* what a class escape or an escaped character matches (re.IGNORECASE)
EscMatches(c, ch) ==
  CASE c = "d" -> ch \in Digits
    [] c = "D" -> ch \notin Digits
    [] c = "w" -> IsWordChar(ch)
    [] c = "W" -> ~IsWordChar(ch)
    [] c = "s" -> ch \in Whitespace
    [] c = "S" -> ch \notin Whitespace
    [] c = "n" -> ch = "\n"
    [] c = "t" -> ch = "\t"
    [] c = "r" -> ch = "\r"
    [] c = "f" -> ch = "\f"
    [] c \in {"a", "v"} -> FALSE  \* the bell, the vertical tab: no
                                  \* character of the model's texts
    [] OTHER   -> Lower(ch) = Lower(c)

(* The matcher. A state <<i, caps>> is a position of the text (the next     *)
(* character to read is text[i]) and the texts the groups have captured     *)
(* (NoText: none yet). The operators return every state the engine can be   *)
(* in after a part of the pattern, whatever order it tries them in.         *)

\* after the token q[k], which is not a parenthesis, from state s
One(q, k, text, s) ==
  LET t == q[k]
      i == s[1]
      n == Len(text)
      stay(ok) == IF ok THEN {s} ELSE {}
  IN  CASE t.k = "lit" ->
             IF i <= n /\ Lower(text[i]) = Lower(t.c) THEN {<<i + 1, s[2]>>} ELSE {}
        [] IsOp(t, ".") ->
             IF i <= n /\ text[i] # "\n" THEN {<<i + 1, s[2]>>} ELSE {}
        [] IsOp(t, "^") -> stay(i = 1)
        [] IsOp(t, "$") -> stay(i = n + 1 \/ (i = n /\ text[n] = "\n"))
        [] IsOp(t, "{") ->
             IF i <= n /\ text[i] = "{" THEN {<<i + 1, s[2]>>} ELSE {}
        [] t.k = "esc" /\ t.c = "b" -> stay(Boundary(text, i))
        [] t.k = "esc" /\ t.c = "B" -> stay(~Boundary(text, i))
        [] t.k = "esc" /\ t.c = "A" -> stay(i = 1)
        [] t.k = "esc" /\ t.c = "Z" -> stay(i = n + 1)
        [] t.k = "esc" /\ t.c \in Digits \ {"0"} ->
             LET cap == s[2][DigitVal(t.c)]
             IN  IF /\ cap # NoText
                    /\ i + Len(cap) - 1 <= n
                    /\ \A j \in 1..Len(cap) : Lower(text[i + j - 1]) = Lower(cap[j])
                 THEN {<<i + Len(cap), s[2]>>} ELSE {}
        [] t.k = "esc" ->
             IF i <= n /\ EscMatches(t.c, text[i]) THEN {<<i + 1, s[2]>>} ELSE {}
        [] OTHER -> {}

RECURSIVE EndsAlt(_, _, _, _, _)
RECURSIVE EndsSeq(_, _, _, _, _)
RECURSIVE Repeat(_, _, _, _, _)

\* after the atom q[lo..e] - one token or one group - from the states S
Atom(q, lo, e, text, S) ==
  IF ~IsOp(q[lo], "(")
  THEN UNION {One(q, lo, text, s) : s \in S}
  ELSE IF Capturing(q, lo)
  THEN UNION {{<<r[1], [r[2] EXCEPT ![GroupNo(q, lo)] =
                                      SubSeq(text, s[1], r[1] - 1)]>> :
                 r \in EndsAlt(q, lo + 1, e - 1, text, {s})} : s \in S}
  ELSE EndsAlt(q, lo + 3, e - 1, text, S)

\* after the atom any number of times (zero included). The engine goes
\* into one more iteration from every state it has reached, except from a
\* state reached by an iteration of this repeat that consumed nothing
\* (sre's zero-width match protection): that state ends the repeat.
Repeat(q, lo, e, text, S) ==
  LET once == UNION {{<<s[1], r>> : r \in Atom(q, lo, e, text, {s})} : s \in S}
      stop == {p[2] : p \in {x \in once : x[2][1] = x[1]}}
      go   == {p[2] : p \in {x \in once : x[2][1] # x[1]}}
  IN  S \cup stop \cup (IF go = {} THEN {} ELSE Repeat(q, lo, e, text, go))

\* after the sequence of atoms q[lo..hi], which has no "|" of its own
EndsSeq(q, lo, hi, text, S) ==
  IF S = {} \/ lo > hi THEN S
  ELSE LET e     == IF IsOp(q[lo], "(") THEN Close(q, lo) ELSE lo
           quant == IF e < hi /\ IsQuant(q[e + 1]) THEN q[e + 1].c ELSE "1"
           lazy  == quant # "1" /\ e + 1 < hi /\ LazyMark(q, e + 2)
           nxt   == e + 1 + (IF quant = "1" THEN 0 ELSE 1)
                          + (IF lazy THEN 1 ELSE 0)
           after == CASE quant = "1" -> Atom(q, lo, e, text, S)
                      [] quant = "?" -> S \cup Atom(q, lo, e, text, S)
                      [] quant = "*" -> Repeat(q, lo, e, text, S)
                      [] quant = "+" -> Repeat(q, lo, e, text,
                                               Atom(q, lo, e, text, S))
       IN  EndsSeq(q, nxt, hi, text, after)

\* after the alternatives q[lo..hi]
EndsAlt(q, lo, hi, text, S) ==
  LET bars == {j \in lo..hi : IsOp(q[j], "|") /\ Depth(q, lo, j) = 0}
  IN  IF bars = {} THEN EndsSeq(q, lo, hi, text, S)
      ELSE LET b == CHOOSE j \in bars : \A k \in bars : j <= k
           IN  EndsSeq(q, lo, b - 1, text, S) \cup EndsAlt(q, b + 1, hi, text, S)

\* bool(pattern.search(text)): the pattern matches at some position
search(q, text) ==
  EndsAlt(q, 1, Len(q), text,
          {<<i, [g \in 1..GroupNo(q, Len(q)) |-> NoText]>> :
             i \in 1..(Len(text) + 1)}) # {}

\* the list the call compiles: BANNED_WORDS when banned is None
ListOf(banned) == IF banned = NoList THEN BANNED_WORDS ELSE banned

\* the call compiles a pattern the model does not interpret
is_bad_message_outside(text, banned) ==
  /\ text # NoText /\ text # <<>>
  /\ Outside(Tokens(compile_pattern(ListOf(banned))))

\* is_bad_message(text, banned) raises (re.error, from _compile_pattern)
is_bad_message_raises(text, banned) ==
  /\ text # NoText /\ text # <<>>
  /\ re_error(Tokens(compile_pattern(ListOf(banned))))

\* is_bad_message(text, banned) when it returns
is_bad_message(text, banned) ==
  IF text = NoText \/ text = <<>>
  THEN FALSE
  ELSE search(Tokens(compile_pattern(ListOf(banned))), text)

(* --------------------- SpecBot: the handlers (app.py) ------------------ *)
MutatingCmds == {"/ban", "/unban", "/mute", "/unmute", "/warn"}

\* the storage function the handler of cmd calls first
OpOf(cmd) ==
  CASE cmd = "/ban"    -> "ban_user"
    [] cmd = "/unban"  -> "unban_user"
    [] cmd = "/mute"   -> "mute_user"
    [] cmd = "/unmute" -> "unmute_user"
    [] cmd = "/warn"   -> "warn_user"
    [] cmd = "/plaint" -> "log_action"

\* storage.op(user_id, DB_PATH) raises: ValueError, or "no such table"
KeyedCallFails(op) == IntFails(DB_PATH) \/ TableOf(op) \notin schema

\* mutant: the caption is not looked at
TextOf_NoCaption(text, caption) ==
  IF text # NoText /\ text # <<>> THEN text ELSE <<>>

\* message.text or message.caption or ""
TextOf(text, caption) ==
  IF text # NoText /\ text # <<>> THEN text
  ELSE IF caption # NoText /\ caption # <<>> THEN caption
  ELSE <<>>

\* mutant: a check that fails counts as "not restricted"
CheckFails_Swallowed(user_id) == FALSE

\* the restriction check of _on_message raises: is_banned does, or
\* is_banned returns False and is_muted, called next, does
CheckFails(user_id) ==
  \/ KeyedCallFails("is_banned")
  \/ ~is_banned(user_id, DB_PATH) /\ KeyedCallFails("is_muted")

\* storage.is_banned(user_id, DB_PATH) or storage.is_muted(user_id, DB_PATH)
Restricted(user_id) ==
  is_banned(user_id, DB_PATH) \/ is_muted(user_id, DB_PATH)

\* the dispatcher starts a handler for a new update; the handler runs to its
\* first await (h.at names it) or to its end and is h then
Starts(h) ==
  /\ nev < MaxEvents
  /\ h.at # "end" => BagCardinality(waiting) < MaxWaiting
  /\ nev' = nev + 1
  /\ hlast' = h
  /\ waiting' = IF h.at = "end" THEN waiting ELSE waiting (+) SetToBag({h})

\* the event loop resumes the handler that waits as old; the handler runs to
\* its next await or to its end and is new then
Resumes(old, new) ==
  /\ BagIn(old, waiting)
  /\ hlast' = new
  /\ waiting' = IF new.at = "end"
                THEN waiting (-) SetToBag({old})
                ELSE (waiting (-) SetToBag({old})) (+) SetToBag({new})
  /\ UNCHANGED nev

\* texts of the messages
Hello    == <<"h", "i">>
BuySpam  == <<"b", "u", "y", " ", "S", "p", "a", "m">>

\* the <<chat, sender, is_bot, text, caption>> of the messages received
MsgArgs == {<<1, 1, FALSE, Hello, NoText>>,
            <<1, 2, FALSE, NoText, BuySpam>>,
            <<1, 2, TRUE, BuySpam, NoText>>,
            <<1, NULL, FALSE, BuySpam, NoText>>}

\* the texts and captions of MsgArgs, and "", that
\* is_bad_message(text, BANNED_WORDS) is true for, computed once
BadMessages ==
  {t \in (({a[4] : a \in MsgArgs} \cup {a[5] : a \in MsgArgs}) \ {NoText})
            \cup {<<>>} : is_bad_message(t, BANNED_WORDS)}

\* is_bad_message(message.text or message.caption or "") for the messages
\* of MsgArgs, computed once
Classified ==
  [a \in MsgArgs |-> is_bad_message(TextOf(a[4], a[5]), BANNED_WORDS)]

\* _on_message for a message with the given chat, sender (NULL: no
\* from_user), text and caption, up to the await of message.delete()
on_message(chat, sender, is_bot, text, caption) ==
  /\ nev < MaxEvents
  /\ LET upd(stage, at) ==
           [kind |-> "message", cmd |-> "none", chat |-> chat,
            sender |-> sender, via |-> "none", target |-> NULL,
            reason |-> NoDetails, is_bot |-> is_bot, text |-> text,
            caption |-> caption, stage |-> stage, deleted |-> FALSE,
            at |-> at]
         msg == <<chat, sender, is_bot, text, caption>>
         bad == IF msg \in MsgArgs THEN Classified[msg]
                ELSE is_bad_message(TextOf(text, caption), BANNED_WORDS)
         classified == upd("classified", IF bad THEN "delete" ELSE "end")
     IN  Starts(IF sender # NULL /\ is_bot THEN upd("ignored", "end")
                ELSE IF sender = NULL THEN classified
                ELSE IF CheckFails(sender) THEN upd("fault", "end")
                ELSE IF Restricted(sender) THEN upd("restricted", "delete")
                ELSE classified)
  /\ UNCHANGED <<dbvars, clock, nops, last, returned, cvars, tvars, DB_PATH,
                 MODERATION_CHAT_IDS, tasks, failed>>

\* await message.delete() returns: the message is deleted and the handler
\* goes on to await its reply
delete_ok(h) ==
  /\ h.at = "delete"
  /\ Resumes(h, [h EXCEPT !.deleted = TRUE, !.at = "reply"])
  /\ UNCHANGED <<dbvars, clock, nops, last, returned, cvars, tvars, DB_PATH,
                 MODERATION_CHAT_IDS, tasks, failed>>

\* await message.delete() raises: the handler logs "Failed to ..." and
\* returns, the message stays
delete_fails(h) ==
  /\ h.at = "delete"
  /\ Resumes(h, [h EXCEPT !.at = "end"])
  /\ UNCHANGED <<dbvars, clock, nops, last, returned, cvars, tvars, DB_PATH,
                 MODERATION_CHAT_IDS, tasks, failed>>

\* mutant: every command is logged as a ban
ActionOf_AlwaysBan(cmd) == "ban"

\* the action the handler of cmd passes to storage.log_action
ActionOf(cmd) ==
  CASE cmd = "/ban"    -> "ban"
    [] cmd = "/unban"  -> "unban"
    [] cmd = "/mute"   -> "mute"
    [] cmd = "/unmute" -> "unmute"
    [] cmd = "/warn"   -> "warn"
    [] cmd = "/plaint" -> "plaint"

\* /warn: details = (reason + f" (total={total})") if reason else f"total={total}"
WarnDetails(reason, total) ==
  IF reason # NoDetails
  THEN reason \o " (total=" \o ToString(total) \o ")"
  ELSE "total=" \o ToString(total)

\* mutant: the sender is not checked against the admin list
Rejected_AnySender(cmd, chat, sender) ==
  /\ cmd \in {"/ban", "/warn", "/mute"}
  /\ MODERATION_CHAT_IDS # {}
  /\ chat \notin MODERATION_CHAT_IDS

\* mutant: all five commands are held to the moderation chats
Rejected_EveryCommand(cmd, chat, sender) ==
  \/ sender \notin ADMINS
  \/ /\ cmd \in {"/ban", "/unban", "/mute", "/unmute", "/warn"}
     /\ MODERATION_CHAT_IDS # {}
     /\ chat \notin MODERATION_CHAT_IDS

\* the command is answered without its target being resolved: the sender is
\* not an admin, or /ban, /warn, /mute come from outside the moderation chats
Rejected(cmd, chat, sender) ==
  \/ sender \notin ADMINS
  \/ /\ cmd \in {"/ban", "/warn", "/mute"}
     /\ MODERATION_CHAT_IDS # {}
     /\ chat \notin MODERATION_CHAT_IDS

\* _notify_audit_chats_fire_and_forget: one task per configured chat
Scheduled == [c \in AUDIT_CHAT_IDS |-> tasks[c] + 1]

\* the handler has to ask Telegram for the target (message.bot.get_chat):
\* the command is no reply and its argument is a name; /plaint takes only an
\* argument that starts with "@" for a name, the other commands every
\* argument that is no number
Awaits(cmd, via) ==
  via = "username" \/ (cmd # "/plaint" /\ via = "text")

\* _on_command from the resolved target (NULL: none) to the await of the
\* reply: the usage text for a command without target, else the storage
\* calls and the notifications; io names the storage call that meets an I/O
\* fault, if any. The handler got here without an await (h.at = "start") or
\* is resumed after the await of get_chat.
Storage(h, target, io) ==
  LET cmd == h.cmd
      Goes(new) == IF h.at = "start" THEN Starts(new) ELSE Resumes(h, new)
      keyed == cmd \in MutatingCmds
      to(stage, at) == [h EXCEPT !.target = target, !.stage = stage, !.at = at]
      row == WarnSelect(warns, target, DB_PATH)
      details == IF cmd = "/warn" THEN WarnDetails(h.reason, WarnTotal(row))
                 ELSE h.reason
      \* the readings of datetime.now(): t1 by ban_user or mute_user after
      \* int(chat_id), t2 by log_action, each before the call connects
      first == IF keyed /\ OpOf(cmd) \in ClockReaders /\ ~IntFails(DB_PATH)
               THEN clock..MaxClock ELSE {clock}
  IN  IF target = NULL /\ ~(cmd = "/plaint" /\ h.via = "text")
      THEN /\ Goes(to("usage", "reply"))
           /\ UNCHANGED <<dbvars, clock, returned, tasks>>
      ELSE \E t1 \in first :
        IF keyed /\ (KeyedCallFails(OpOf(cmd)) \/ io = "mutation")
        THEN /\ Goes(to("fault", "end"))
             /\ clock' = t1
             /\ UNCHANGED <<dbvars, returned, tasks>>
        ELSE \E t2 \in t1..MaxClock :
           /\ ("audit" \in schema /\ io # "log") => Len(audit) < MaxRecords
           /\ clock' = t2
           /\ bans' = CASE cmd = "/ban" -> StmtBan(bans, target, DB_PATH, t1)
                        [] cmd = "/unban" -> StmtUnban(bans, target, DB_PATH)
                        [] OTHER -> bans
           /\ mutes' = CASE cmd = "/mute" -> StmtMute(mutes, target, DB_PATH, t1)
                         [] cmd = "/unmute" -> StmtUnmute(mutes, target, DB_PATH)
                         [] OTHER -> mutes
           /\ warns' = IF cmd = "/warn"
                       THEN StmtWarn(warns, target, DB_PATH, row) ELSE warns
           /\ returned' = IF cmd = "/warn" /\ <<CidOrZero(DB_PATH), target>> \in Keys
                          THEN [returned EXCEPT
                                  ![<<CidOrZero(DB_PATH), target>>] = WarnTotal(row)]
                          ELSE returned
           /\ UNCHANGED schema
           /\ IF "audit" \notin schema \/ io = "log"
              THEN /\ Goes(to("fault", "end"))
                   /\ UNCHANGED <<audit, tasks>>
              ELSE /\ audit' = StmtLog(audit, ActionOf(cmd), target, h.sender,
                                       details, NULL, t2)
                   /\ Goes(to("done", "reply"))
                   /\ tasks' = Scheduled

\* _on_command for /ban, /unban, /mute, /unmute, /warn and /plaint sent in
\* chat by sender (NULL: no from_user), up to its first await. via tells how
\* the target is given: "reply" (the command answers a message of target),
\* "id" (the argument is the number target), "username" (the argument is
\* "@name"), "text" (another argument), "none" (no argument).
on_command(cmd, chat, sender, via, target, reason, io) ==
  /\ nev < MaxEvents
  /\ LET h == [kind |-> "command", cmd |-> cmd, chat |-> chat,
               sender |-> sender, via |-> via, target |-> NULL,
               reason |-> reason, is_bot |-> FALSE, text |-> NoText,
               caption |-> NoText, stage |-> "started", deleted |-> FALSE,
               at |-> "start"]
     IN  IF \/ cmd = "/plaint" /\ sender = NULL
            \/ cmd # "/plaint" /\ Rejected(cmd, chat, sender)
         THEN /\ Starts([h EXCEPT !.stage = "rejected", !.at = "reply"])
              /\ UNCHANGED <<dbvars, clock, returned, tasks>>
         ELSE IF Awaits(cmd, via)
         THEN /\ Starts([h EXCEPT !.stage = "resolving", !.at = "get_chat"])
              /\ UNCHANGED <<dbvars, clock, returned, tasks>>
         ELSE Storage(h, IF via \in {"reply", "id"} THEN target ELSE NULL, io)
  /\ UNCHANGED <<nops, last, cvars, tvars, DB_PATH, MODERATION_CHAT_IDS,
                 failed>>

\* await message.bot.get_chat(...) returns the chat with id target, or
\* raises (target = NULL), and the handler goes on from there
get_chat_returns(h, target, io) ==
  /\ h.at = "get_chat"
  /\ Storage(h, target, io)
  /\ UNCHANGED <<nops, last, cvars, tvars, DB_PATH, MODERATION_CHAT_IDS,
                 failed>>

\* a _safe_send_audit task runs and bot.send_message returns
send_ok(c) ==
  /\ tasks[c] > 0
  /\ tasks' = [tasks EXCEPT ![c] = @ - 1]
  /\ UNCHANGED <<dbvars, clock, nops, last, returned, cvars, tvars, DB_PATH,
                 MODERATION_CHAT_IDS, nev, hlast, waiting, failed>>

\* mutant: a failed notification takes the audit record back
send_fails_RollsBack(c) ==
  /\ c \in {71}
  /\ tasks[c] > 0
  /\ tasks' = [tasks EXCEPT ![c] = @ - 1]
  /\ failed' = failed \cup {c}
  /\ audit' = IF audit = <<>> THEN audit ELSE SubSeq(audit, 1, Len(audit) - 1)
  /\ UNCHANGED <<schema, bans, mutes, warns, clock, nops, last, returned,
                 cvars, tvars, DB_PATH, MODERATION_CHAT_IDS, nev, hlast,
                 waiting>>

\* the audit chats bot.send_message raises for (the bot is not a member)
ClosedChats == {71}

\* a _safe_send_audit task runs and bot.send_message raises: the exception
\* is logged inside the task
send_fails(c) ==
  /\ c \in ClosedChats
  /\ tasks[c] > 0
  /\ tasks' = [tasks EXCEPT ![c] = @ - 1]
  /\ failed' = failed \cup {c}
  /\ UNCHANGED <<dbvars, clock, nops, last, returned, cvars, tvars, DB_PATH,
                 MODERATION_CHAT_IDS, nev, hlast, waiting>>

\* await _reply_with_optional_delete(...) returns (an exception of
\* message.answer is logged inside it) and the handler with it
reply_done(h) ==
  /\ h.at = "reply"
  /\ Resumes(h, [h EXCEPT !.at = "end"])
  /\ UNCHANGED <<dbvars, clock, nops, last, returned, cvars, tvars, DB_PATH,
                 MODERATION_CHAT_IDS, tasks, failed>>

\* the <<cmd, chat, sender, via, target, reason, io>> of the commands
\* received
CmdArgs == {<<"/ban", 1, 99, "id", 1, "x", "none">>,
            <<"/ban", 2, 99, "id", 2, NoDetails, "log">>,
            <<"/ban", 1, 1, "id", 2, NoDetails, "none">>,
            <<"/unban", 2, 99, "id", 1, NoDetails, "none">>,
            <<"/mute", 1, 99, "reply", 1, NoDetails, "none">>,
            <<"/unmute", 2, 99, "id", 1, NoDetails, "mutation">>,
            <<"/unmute", 1, 99, "username", NULL, NoDetails, "none">>,
            <<"/warn", 1, 99, "id", 1, "x", "none">>,
            <<"/plaint", 2, 2, "text", NULL, "x", "none">>,
            <<"/plaint", 2, 2, "none", NULL, NoDetails, "none">>,
            <<"/plaint", 1, 2, "username", NULL, NoDetails, "none">>,
            <<"/plaint", 1, NULL, "id", 2, "x", "none">>}

\* the <<target, io>> of the answers of get_chat: the name is not known, or
\* it is the name of user 1
ChatArgs == {<<NULL, "none">>, <<1, "none">>}

\* the <<DB_PATH, MODERATION_CHAT_IDS>> of the runs: DB_PATH unset or the
\* path of a database file, the list of moderation chats empty or naming
\* chat 1
Configs == {<<NULL, {}>>, <<NULL, {1}>>, <<DbFile, {}>>}

InitBot == \E c \in Configs : InitWith(c[1], c[2])

\* run(): storage.init_db(DB_PATH) is called once, an exception of it is
\* logged, and then the dispatcher starts polling; n is the number of
\* CREATE TABLE statements that went through
run(n) ==
  /\ last = NoCall
  /\ init_db(n)

\* the dispatcher polls for updates: run() has got past init_db
Polling == last.op = "init_db"

NextBot ==
  \/ \E n \in 0..4 : run(n)
  \/ /\ Polling
     /\ \/ \E a \in MsgArgs : on_message(a[1], a[2], a[3], a[4], a[5])
        \/ \E a \in CmdArgs :
             on_command(a[1], a[2], a[3], a[4], a[5], a[6], a[7])
        \/ \E h \in BagToSet(waiting), a \in ChatArgs :
             get_chat_returns(h, a[1], a[2])
        \/ \E h \in BagToSet(waiting) : delete_ok(h)
        \/ \E h \in BagToSet(waiting) : delete_fails(h)
        \/ \E h \in BagToSet(waiting) : reply_done(h)
        \/ \E c \in AUDIT_CHAT_IDS : send_ok(c)
        \/ \E c \in AUDIT_CHAT_IDS : send_fails(c)

SpecBot == InitBot /\ [][NextBot]_vars

(* -------- SpecText: one call of is_bad_message (moderation.py) --------- *)
\* is_bad_message(in_text, in_banned), from "if not text" to the return
classify ==
  /\ verdict = "none"
  /\ verdict' \in IF is_bad_message_outside(in_text, in_banned)
                  THEN {"error", "true", "false"}
                  ELSE IF is_bad_message_raises(in_text, in_banned)
                  THEN {"error"}
                  ELSE IF is_bad_message(in_text, in_banned) THEN {"true"}
                  ELSE {"false"}
  /\ UNCHANGED <<dbvars, clock, nops, last, returned, cvars, bvars, in_text,
                 in_banned>>

\* the texts is_bad_message is called with
Texts ==
  {NoText, <<>>,
   <<"\n">>, <<"a", "\n">>, <<"\n", "a">>, <<" ">>,
   <<"T", "h", "a", "t", " ", "i", "s", " ", "a", " ",
     "b", "a", "d", "w", "o", "r", "d", ".">>,
   <<"b", "a", "d", "w", "o", "r", "d", "i", "n", "g">>,
   <<"S", "P", "A", "M">>, <<"s", "p", "a", "m", "_">>,
   <<"s", "p", "a", "m", "1", "2", "3">>,
   <<"s", "p", "a", "m", " ", "a", "b", "c">>,
   <<"a", ".", "b">>, <<"a", "x", "b">>, <<"x", " ", "A", ".", "B", "!">>,
   <<"c", "+", "+">>, <<"c", "+", "+", "x">>, <<"c", "c">>,
   <<"a", "a">>, <<"b", "b">>, <<"a", "b">>, <<"x">>,
   <<"a">>, <<"a", "]">>}

\* the banned lists it is called with (NoList: the default); a raw entry
\* starts with "re:"
BannedLists ==
  {NoList, <<>>,
   << <<"a", ".", "b">> >>,
   << <<"c", "+", "+">> >>,
   << <<"s", "p", "a", "m">>, <<"x">> >>,
   << <<"r", "e", ":", "s", "p", "a", "m", "\\", "d", "+">> >>,
   << <<"x">>, <<"r", "e", ":", "s", "p", "a", "m", "\\", "d", "+">> >>,
   << <<"r", "e", ":", "a", ".", "b">> >>,
   << <<"r", "e", ":", "a", "|", "x">>, <<"b", "b">> >>,
   << <<"r", "e", ":", "(", "b", ")", "\\", "1">> >>,
   << <<"r", "e", ":", "(", "a", ")", "\\", "1">>,
      <<"r", "e", ":", "(", "b", ")", "\\", "1">> >>,
   << <<"r", "e", ":", "(">> >>,
   << <<"s", "p", "a", "m">>, <<"r", "e", ":", "(">> >>,
   << <<"r", "e", ":", "+", "a">> >>,
   << <<"r", "e", ":", "a", ")", "|", "(", "b">> >>,
   << <<"r", "e", ":", "a", "]">> >>,
   << <<"r", "e", ":", "a", "*", "*">> >>,
   << <<"r", "e", ":", "a", "*", "?", "?">> >>,
   << <<"r", "e", ":", "\\", "1", "(", "a", ")">> >>,
   << <<"r", "e", ":", "\\", "a">> >>,
   << <<"r", "e", ":", "(", "?", ":", "(", ")", "|", "(", ")", ")", "*",
        "\\", "1", "\\", "2">> >>,
   << <<"r", "e", ":", "(", "?", ":", "(", ")", "|", "(", ")", ")", "+",
        "\\", "1", "\\", "2">> >>,
   << <<"r", "e", ":", "(", "?", ":", "(", "a", ")", "|", "(", ")", ")", "*",
        "\\", "1", "\\", "2">> >>}

InitText == \E t \in Texts, b \in BannedLists : InitState(NULL, {}, t, b)

NextText == classify

SpecText == InitText /\ [][NextText]_vars

(* ============================== claims ================================ *)

\* this step of Spec is a call of op on key <<c, u>> that returned normally
Did(op, u, c) ==
  /\ nops' = nops + 1
  /\ last'.op = op /\ last'.status = "ok"
  /\ last'.user_id = u /\ CidOrZero(last'.chat_id) = c

AllIdle == \A w \in Workers : pc[w] = "idle"

(* C1: when warn_user calls on one key overlap, interleaved at their SELECT *)
(* and their INSERT/UPDATE, then once every call has finished the counter   *)
(* of the key equals the number of calls that returned: no increment is     *)
(* lost. (okwarns is the counter v at the start of the run plus the number  *)
(* k of calls that have returned so far.)                                   *)
C1_NoLostIncrement ==
  AllIdle => \A k \in Keys : get_warn_count(k[2], k[1]) = okwarns[k]

(* C2: once ban(u,c) has completed is_banned(u,c) is true, once unban(u,c)  *)
(* has completed it is false, and no other step - a call on another key,    *)
(* mute, unmute, warn, log_action, init_db, a failed call, the passage of   *)
(* time - changes is_banned(u,c).                                           *)
C2_BannedUntilUnban ==
  [][\A u \in Users, c \in Chats :
       /\ Did("ban_user", u, c) => is_banned(u, c)'
       /\ Did("unban_user", u, c) => ~is_banned(u, c)'
       /\ ~(Did("ban_user", u, c) \/ Did("unban_user", u, c))
            => (is_banned(u, c)' <=> is_banned(u, c))]_vars

\* a ban made earlier is still reported after a warn on the same key
C2_Witness ==
  /\ last.op = "warn_user" /\ last.status = "ok"
  /\ is_banned(last.user_id, last.chat_id)

(* C3: get_stats(c) is (number of users with a ban row in chat c, number of *)
(* users of chat c whose warn count is > 0), and get_stats() without a chat *)
(* is the same two counts over all chats, both recounted from the rows.     *)
BannedKeys == {k \in Keys : \E r \in bans : r.chat_id = k[1] /\ r.user_id = k[2]}

WarnedKeys ==
  {k \in Keys : \E r \in warns :
                  r.chat_id = k[1] /\ r.user_id = k[2] /\ r.count > 0}

C3_StatsOracle ==
  /\ \A c \in Chats :
       get_stats(c) = <<Cardinality({k \in BannedKeys : k[1] = c}),
                        Cardinality({k \in WarnedKeys : k[1] = c})>>
  /\ get_stats(NULL) = <<Cardinality(BannedKeys), Cardinality(WarnedKeys)>>

\* a ban, a warn and an unban have been applied; one ban is left in chat 1
C3_Witness ==
  /\ last.op = "unban_user" /\ last.status = "ok"
  /\ get_stats(1) = <<1, 1>>

(* C4: ban and unban leave is_muted unchanged for every key, mute and       *)
(* unmute leave is_banned unchanged for every key.                          *)
C4_AxesIndependent ==
  [][\A u \in Users, c \in Chats :
       /\ (Did("ban_user", u, c) \/ Did("unban_user", u, c))
            => \A k \in Keys : is_muted(k[2], k[1])' <=> is_muted(k[2], k[1])
       /\ (Did("mute_user", u, c) \/ Did("unmute_user", u, c))
            => \A k \in Keys : is_banned(k[2], k[1])' <=> is_banned(k[2], k[1])
    ]_vars

\* the ban of a muted key has been lifted and the key is still muted
C4_Witness ==
  /\ last.op = "unban_user" /\ last.status = "ok" /\ nops = 3
  /\ is_muted(last.user_id, last.chat_id)
  /\ ~is_banned(last.user_id, last.chat_id)

(* C5: called one after another, warn_user returns the previous total plus  *)
(* 1 (1 on a key without a row, which it creates), and get_warn_count(u,c)  *)
(* is always the value the last completed warn_user(u,c) returned, 0 if     *)
(* there was none.                                                          *)
C5_WarnReturnsTotal ==
  /\ [](\A k \in Keys : get_warn_count(k[2], k[1]) = returned[k])
  /\ [][\A u \in Users, c \in Chats :
          Did("warn_user", u, c) =>
            /\ last'.ret = get_warn_count(u, c) + 1
            /\ RowsOf(warns, c, u) = {} =>
                 (last'.ret = 1 /\ RowsOf(warns', c, u) # {})]_vars

\* the second warn on a key has returned 2
C5_Witness ==
  /\ last.op = "warn_user" /\ last.status = "ok" /\ last.ret = 2
  /\ get_warn_count(last.user_id, last.chat_id) = 2

(* C6: a key that was never muted is not muted; once mute(u,c) has          *)
(* completed is_muted(u,c) is true, once unmute(u,c) has completed it is    *)
(* false, and no other step changes is_muted(u,c).                          *)
C6_MutedUntilUnmute ==
  /\ \A k \in Keys : ~is_muted(k[2], k[1])
  /\ [][\A u \in Users, c \in Chats :
          /\ Did("mute_user", u, c) => is_muted(u, c)'
          /\ Did("unmute_user", u, c) => ~is_muted(u, c)'
          /\ ~(Did("mute_user", u, c) \/ Did("unmute_user", u, c))
               => (is_muted(u, c)' <=> is_muted(u, c))]_vars

\* a mute made in chat 1 is still reported after a later ban of the key
C6_Witness ==
  /\ last.op = "ban_user" /\ last.status = "ok"
  /\ CidOrZero(last.chat_id) = 1
  /\ is_muted(last.user_id, last.chat_id)

(* C7: after log_action(a, u, adm, details=d, chat_id=c) has returned,      *)
(* get_audit(u, chat_id=c) contains a record with action a, user u, admin   *)
(* adm and details d, and the record logged last - this one - comes first.  *)
C7_AuditRoundTrip ==
  (last.op = "log_action" /\ last.status = "ok" /\ last.user_id \in Users) =>
    LET res == get_audit(last.user_id, DefaultLimit, last.chat_id)
    IN  /\ \E i \in 1..Len(res) :
             /\ res[i][2] = last.action /\ res[i][3] = last.user_id
             /\ res[i][4] = last.admin_id /\ res[i][6] = last.details
        /\ res[1][1] = audit[Len(audit)].id

(* C8: the audit table is append-only: no step changes or removes a row     *)
(* that is there, a log_action that returns adds exactly one row, and no    *)
(* other step adds one.                                                     *)
C8_AuditAppendOnly ==
  [][/\ Len(audit') >= Len(audit)
     /\ \A i \in 1..Len(audit) : audit'[i] = audit[i]
     /\ IF nops' = nops + 1 /\ last'.op = "log_action" /\ last'.status = "ok"
        THEN Len(audit') = Len(audit) + 1
        ELSE audit' = audit]_vars

\* two records are in the table and a ban has been applied after them
C8_Witness ==
  /\ last.op = "ban_user" /\ last.status = "ok"
  /\ Len(audit) = 2

\* the fields of the audit row r, its id left out
FieldsOf(r) ==
  [chat_id |-> r.chat_id, action |-> r.action, user_id |-> r.user_id,
   admin_id |-> r.admin_id, timestamp |-> r.timestamp, details |-> r.details]

\* the workers whose log_action has committed and not returned yet
Returning == {w \in Workers : pc[w] = "return" /\ loc[w].op = "log_action"}

(* C9: with log_action calls overlapping, the audit table holds exactly one *)
(* row for every call that has returned normally and one for every call     *)
(* that has committed and is about to return, with the fields of that call, *)
(* and no other row; the ids of the rows are pairwise distinct. So once all *)
(* calls have returned the table holds one row per call that returned       *)
(* normally.                                                                *)
C9_NoAuditLost ==
  /\ Len(audit) = Len(logged) + Cardinality(Returning)
  /\ \A r \in {FieldsOf(audit[i]) : i \in 1..Len(audit)}
              \cup {logged[i] : i \in 1..Len(logged)}
              \cup {RecordOf(loc[w]) : w \in Returning} :
       Cardinality({i \in 1..Len(audit) : FieldsOf(audit[i]) = r})
         = Cardinality({i \in 1..Len(logged) : logged[i] = r})
             + Cardinality({w \in Returning : RecordOf(loc[w]) = r})
  /\ \A i, j \in 1..Len(audit) : i # j => audit[i].id # audit[j].id

\* two calls overlapped and both have returned: the one that committed
\* first returned last
C9_Witness ==
  /\ AllIdle
  /\ Len(logged) = 2 /\ Len(audit) = 2
  /\ logged[1] # logged[2]
  /\ FieldsOf(audit[1]) = logged[2] /\ FieldsOf(audit[2]) = logged[1]

(* C10: a fault in a call, at whatever statement, changes no table and      *)
(* leaves the call without the write lock; when the exception leaves the    *)
(* call the four tables are as they were when the call was made (no other   *)
(* call overlapping), so a failed warn_user leaves get_warn_count           *)
(* unchanged, and the fault is what the caller gets.                        *)
C10_FaultLeavesNoTrace ==
  [][\A w \in Workers :
       /\ (pc[w] # "raise" /\ pc'[w] = "raise")
            => /\ <<bans', mutes', warns', audit'>> = <<bans, mutes, warns, audit>>
               /\ writer' # w
       /\ (pc[w] = "raise" /\ pc'[w] = "idle")
            => /\ last'.status = "fault" /\ last'.op = loc[w].op
               /\ loc[w].alone =>
                    <<bans', mutes', warns', audit'>> = loc[w].snap
               /\ \A k \in Keys :
                    get_warn_count(k[2], k[1])' = get_warn_count(k[2], k[1])]_vars

\* a warn_user on a key warned once before has failed; the count is still 1
C10_Witness ==
  /\ schema = Tables /\ AllIdle
  /\ last.op = "warn_user" /\ last.status = "fault"
  /\ get_warn_count(last.user_id, last.chat_id) = 1

(* C11: for every key the warn count never decreases and a warn row, once   *)
(* there, stays: a warn_user(u,c) that returns raises the count of <<c,u>>  *)
(* by exactly 1, and every other step - ban, unban, mute, unmute,           *)
(* log_action, a warn on another key, a failed call - leaves it unchanged.  *)
C11_WarnCountMonotone ==
  [][\A k \in Keys :
       LET before == get_warn_count(k[2], k[1])
           after  == get_warn_count(k[2], k[1])'
       IN  /\ after >= before
           /\ RowsOf(warns, k[1], k[2]) # {} => RowsOf(warns', k[1], k[2]) # {}
           /\ IF Did("warn_user", k[2], k[1])
              THEN after = before + 1
              ELSE after = before]_vars

\* a key warned once has been unbanned: the count is still 1
C11_Witness ==
  /\ last.op = "unban_user" /\ last.status = "ok" /\ nops = 3
  /\ ~is_banned(last.user_id, last.chat_id)
  /\ get_warn_count(last.user_id, last.chat_id) = 1
  /\ bans = {} /\ mutes = {} /\ audit = <<>>

(* C13: a ban, unban, mute, unmute or warn on key <<c,u>> leaves is_banned, *)
(* is_muted and get_warn_count of every other key as they were.             *)
C13_KeysIsolated ==
  [][\A u \in Users, c \in Chats, op \in KeyedOps :
       Did(op, u, c) =>
         \A k \in Keys \ {<<c, u>>} :
           /\ is_banned(k[2], k[1])' <=> is_banned(k[2], k[1])
           /\ is_muted(k[2], k[1])' <=> is_muted(k[2], k[1])
           /\ get_warn_count(k[2], k[1])' = get_warn_count(k[2], k[1])]_vars

\* user 1 has been unmuted in chat 1; user 2 of chat 1 and user 1 in chat 0
\* are still muted
C13_Witness ==
  /\ last.op = "unmute_user" /\ last.status = "ok"
  /\ last.user_id = 1 /\ last.chat_id = 1
  /\ is_muted(2, 1) /\ is_muted(1, 0) /\ ~is_muted(1, 1)

(* C14: every key has at most one ban row and at most one mute row; a ban,  *)
(* unban, mute or unmute applied to a key right after the same call on the  *)
(* same key leaves the key's is_banned, is_muted and numbers of rows as the *)
(* first application left them; on an initialised ledger unban and unmute   *)
(* of a key without a row return normally and change no table.              *)
C14_Idempotent ==
  /\ [](\A k \in Keys : /\ Cardinality(RowsOf(bans, k[1], k[2])) <= 1
                        /\ Cardinality(RowsOf(mutes, k[1], k[2])) <= 1)
  /\ [][\A u \in Users, c \in Chats :
          /\ \A op \in {"ban_user", "unban_user", "mute_user", "unmute_user"} :
               (/\ Did(op, u, c)
                /\ last.op = op /\ last.status = "ok"
                /\ last.user_id = u /\ CidOrZero(last.chat_id) = c)
               => /\ is_banned(u, c)' <=> is_banned(u, c)
                  /\ is_muted(u, c)' <=> is_muted(u, c)
                  /\ Cardinality(RowsOf(bans', c, u))
                       = Cardinality(RowsOf(bans, c, u))
                  /\ Cardinality(RowsOf(mutes', c, u))
                       = Cardinality(RowsOf(mutes, c, u))
          /\ (/\ schema = Tables /\ nops' = nops + 1
              /\ last'.user_id = u /\ CidOrZero(last'.chat_id) = c
              /\ \/ last'.op = "unban_user" /\ RowsOf(bans, c, u) = {}
                 \/ last'.op = "unmute_user" /\ RowsOf(mutes, c, u) = {})
             => (last'.status = "ok" /\ dbvars' = dbvars)]_vars

\* a key banned at clock reading 0 has been banned again at reading 1: its
\* one row carries the new banned_at
C14_Witness ==
  /\ last.op = "ban_user" /\ last.status = "ok" /\ nops = 2 /\ clock = 1
  /\ mutes = {} /\ warns = {} /\ audit = <<>>
  /\ bans = {[chat_id |-> 1, user_id |-> 1, banned_at |-> 1]}

(* C20: in every state, get_audit(u, limit=n, chat_id=c) for a limit n >= 0 *)
(* (50 by default)                                                          *)
(* returns min(n, number of matching rows) of the matching rows, each once, *)
(* in order of non-increasing timestamp, and no matching row left out has a *)
(* later timestamp than a returned one.                                     *)
C20_AuditRecentFirst ==
  [](\A u \in Users, c \in Chats \cup {NULL} :
       LET all == AuditWhere(u, CidOrNone(c))
       IN  \A n \in (0..MaxAudit) \cup {DefaultLimit} :
             LET res == get_audit(u, n, c)
                 m == Len(res)
                 ids == {res[i][1] : i \in 1..m}
             IN  /\ m <= n
                 /\ m = IF n <= Len(all) THEN n ELSE Len(all)
                 /\ Cardinality(ids) = m
                 /\ \A i \in 1..m :
                      \E j \in 1..Len(all) : res[i] = AuditTuple(all[j])
                 /\ \A i, j \in 1..m : i < j => res[i][5] >= res[j][5]
                 /\ \A j \in 1..Len(all) :
                      all[j].id \notin ids =>
                        \A i \in 1..m : all[j].timestamp <= res[i][5])

\* two records of user 1 with different timestamps: limit 1 returns the later
C20_Witness ==
  /\ Len(audit) = 2
  /\ audit[1].user_id = 1 /\ audit[2].user_id = 1
  /\ audit[1].timestamp < audit[2].timestamp
  /\ get_audit(1, 1, NULL) = <<AuditTuple(audit[2])>>

(* C15: with ban, unban, mute and unmute calls overlapping on one key, the  *)
(* key has at most one ban row and at most one mute row in every state, and *)
(* tables bans and mutes change only in the step in which one call commits, *)
(* from the table as it is then to that table with the call's               *)
(* statement applied: the states are those of the calls run one after       *)
(* another in the order of their commits.                                   *)
C15_KeyedCallsSerialize ==
  /\ [](\A k \in Keys : /\ Cardinality(RowsOf(bans, k[1], k[2])) <= 1
                        /\ Cardinality(RowsOf(mutes, k[1], k[2])) <= 1)
  /\ [][\/ bans' = bans /\ mutes' = mutes
        \/ \E w \in Workers :
             LET l == loc[w]
             IN  /\ pc[w] = "commit" /\ pc'[w] = "return"
                 /\ bans' = CASE l.op = "ban_user" ->
                                   StmtBan(bans, l.user_id, l.chat_id, l.now)
                              [] l.op = "unban_user" ->
                                   StmtUnban(bans, l.user_id, l.chat_id)
                              [] OTHER -> bans
                 /\ mutes' = CASE l.op = "mute_user" ->
                                    StmtMute(mutes, l.user_id, l.chat_id, l.now)
                               [] l.op = "unmute_user" ->
                                    StmtUnmute(mutes, l.user_id, l.chat_id)
                               [] OTHER -> mutes]_vars

\* a ban of a key has committed and not returned, and a second ban of the
\* same key, which waited for the write lock, is about to commit; the key
\* has its one row
C15_Witness ==
  /\ \E w, v \in Workers :
       /\ pc[w] = "return" /\ loc[w].op = "ban_user"
       /\ pc[v] = "commit" /\ loc[v].op = "ban_user"
       /\ loc[v].user_id = loc[w].user_id /\ loc[v].chat_id = loc[w].chat_id
       /\ Cardinality(RowsOf(bans, CidOrZero(loc[w].chat_id), loc[w].user_id)) = 1

\* this step starts a handler for a new update: the handler is hlast' after it
Started == nev' = nev + 1

\* this step resumes a handler that waited (as Resumed): it is hlast' after it
ResumedStep == nev' = nev /\ waiting' # waiting

Resumed ==
  CHOOSE h \in BagToSet(waiting) : CopiesIn(h, waiting') < CopiesIn(h, waiting)

\* in this step a command handler goes from its target, resolved or not, to
\* its reply or to its end
Decides ==
  /\ hlast'.kind = "command" /\ hlast'.stage # "resolving"
  /\ Started \/ (ResumedStep /\ Resumed.at = "get_chat")

(* C12: the message handler treats the sender of a message as restricted    *)
(* exactly when, at the time of its check, the sender is banned or muted    *)
(* under the key (chat of the message, sender): a sender with a ban or mute *)
(* row under another chat only is treated as unrestricted, and a sender     *)
(* with a row under the chat of the message as restricted. (The handler,    *)
(* on_message, asks is_banned(sender, DB_PATH) and is_muted(sender,         *)
(* DB_PATH), as app.py:206 does; the formula asks for the chat of the       *)
(* message instead.)                                                        *)
C12_CheckScopedToChat ==
  [][(/\ Started /\ hlast'.kind = "message" /\ hlast'.sender # NULL
      /\ hlast'.stage \in {"restricted", "classified"})
     => ((hlast'.stage = "restricted")
           <=> (is_banned(hlast'.sender, hlast'.chat)
                  \/ is_muted(hlast'.sender, hlast'.chat)))]_vars

(* C16: when the message handler checks a non-bot sender, then either the   *)
(* check cannot be made (the chat argument is not an integer, table bans is *)
(* missing, or is_banned says no and table mutes is missing) and the        *)
(* handler ends with the error, without classifying or deleting the         *)
(* message, or the handler treats the sender as restricted exactly when the *)
(* rows of the key it asked for say so.                                     *)
C16_NoFalseNegative ==
  [][(/\ Started /\ hlast'.kind = "message"
      /\ ~hlast'.is_bot /\ hlast'.sender # NULL)
     => IF \/ IntFails(DB_PATH) \/ "bans" \notin schema
           \/ ~is_banned(hlast'.sender, DB_PATH) /\ "mutes" \notin schema
        THEN /\ hlast'.stage = "fault" /\ ~hlast'.deleted
             /\ hlast'.at = "end" /\ waiting' = waiting
        ELSE /\ hlast'.stage \in {"restricted", "classified"}
             /\ (hlast'.stage = "restricted")
                  <=> (is_banned(hlast'.sender, DB_PATH)
                         \/ is_muted(hlast'.sender, DB_PATH))]_vars

\* the check of a message with a banned word failed: the handler stopped
C16_Witness ==
  /\ hlast.kind = "message" /\ hlast.stage = "fault" /\ ~hlast.deleted
  /\ hlast.caption = BuySpam

(* C17: a handler that has scheduled the notifications and awaits its      *)
(* reply can always finish, every scheduled notification can always run, a  *)
(* command that is carried out schedules one notification for every audit   *)
(* chat whatever happened to earlier ones, and a step in which a            *)
(* notification is delivered or fails changes no table, no other chat's     *)
(* notifications and no handler.                                            *)
C17_NotifyDecoupled ==
  /\ [](\A h \in BagToSet(waiting) : h.at = "reply" => ENABLED reply_done(h))
  /\ [](\A c \in AUDIT_CHAT_IDS :
          tasks[c] > 0 => /\ ENABLED send_ok(c)
                          /\ c \in ClosedChats => ENABLED send_fails(c))
  /\ [][/\ (nev' = nev /\ waiting' = waiting /\ tasks' # tasks)
             => /\ dbvars' = dbvars /\ hlast' = hlast
                /\ \E c \in AUDIT_CHAT_IDS :
                     \A d \in AUDIT_CHAT_IDS \ {c} : tasks'[d] = tasks[d]
        /\ (Decides /\ hlast'.stage = "done")
             => /\ hlast'.at = "reply" /\ BagIn(hlast', waiting')
                /\ \A c \in AUDIT_CHAT_IDS : tasks'[c] = tasks[c] + 1]_vars

\* after a /ban the notification to chat 71 failed and the one to chat 72
\* was delivered; the handler has finished, the ban and its record are there
C17_Witness ==
  /\ failed = {71} /\ \A c \in AUDIT_CHAT_IDS : tasks[c] = 0
  /\ waiting = EmptyBag
  /\ hlast.cmd = "/ban" /\ hlast.stage = "done"
  /\ is_banned(hlast.target, DB_PATH)
  /\ Len(audit) = 1 /\ audit[1].action = "ban"

C19_MessageOrder ==
  [][(/\ Started \/ ResumedStep
      /\ hlast'.kind = "message")
     => LET h == hlast'
            t == IF h.text # NoText /\ h.text # <<>> THEN h.text
                 ELSE IF h.caption # NoText /\ h.caption # <<>> THEN h.caption
                 ELSE <<>>
        IN  /\ dbvars' = dbvars
            /\ Started =>
                 /\ ~h.deleted
                 /\ (/\ ~h.is_bot /\ h.sender # NULL /\ ~IntFails(DB_PATH)
                     /\ "bans" \in schema
                     /\ is_banned(h.sender, DB_PATH) \/ "mutes" \in schema)
                      => IF is_banned(h.sender, DB_PATH)
                              \/ is_muted(h.sender, DB_PATH)
                         THEN h.stage = "restricted" /\ h.at = "delete"
                         ELSE /\ h.stage = "classified"
                              /\ h.at = "delete"
                                   <=> t \in BadMessages
                              /\ h.at # "delete" => h.at = "end"
            /\ ResumedStep =>
                 /\ h.stage = Resumed.stage
                 /\ Resumed.at = "delete" =>
                      \/ h.deleted /\ h.at = "reply"
                      \/ ~h.deleted /\ h.at = "end"
                 /\ Resumed.at # "delete" => h.deleted = Resumed.deleted]_vars

\* a muted sender's harmless message has been deleted unclassified
C19_Witness ==
  /\ hlast.kind = "message" /\ hlast.stage = "restricted" /\ hlast.deleted
  /\ hlast.text = Hello
  /\ is_muted(hlast.sender, DB_PATH) /\ ~is_banned(hlast.sender, DB_PATH)

(* C21: get_audit(u) with the chat omitted returns (up to the limit, 50 by  *)
(* default) exactly the records whose user_id is u, whatever their chat_id, *)
(* the null one included; get_audit(u, chat_id=c) returns exactly the       *)
(* records whose user_id is u and whose chat_id is c; neither returns a     *)
(* record of another user.                                                  *)
C21_AuditScope ==
  \A u \in Users :
    LET idsOf(res) == {res[i][1] : i \in 1..Len(res)}
        rowsOf(P(_)) == {audit[i].id : i \in {j \in 1..Len(audit) : P(audit[j])}}
        ofUser(r) == r.user_id = u
    IN  /\ idsOf(get_audit(u, DefaultLimit, NULL)) = rowsOf(ofUser)
        /\ \A c \in Chats :
             LET ofUserInChat(r) == r.user_id = u /\ r.chat_id = c
                 res == get_audit(u, DefaultLimit, c)
             IN  /\ idsOf(res) = rowsOf(ofUserInChat)
                 /\ \A i \in 1..Len(res) : res[i][3] = u
        /\ LET res == get_audit(u, DefaultLimit, NULL)
           IN  \A i \in 1..Len(res) : res[i][3] = u

\* user 1 has a record in chat 1 and one without a chat, user 2 has none of
\* his own in the answer: the first form returns both, the second one of them
C21_Witness ==
  /\ Len(audit) = 2
  /\ \E i, j \in 1..2 :
       /\ audit[i].user_id = 1 /\ audit[i].chat_id = 1
       /\ audit[j].user_id = 1 /\ audit[j].chat_id = NULL
  /\ Len(get_audit(1, DefaultLimit, NULL)) = 2
  /\ Len(get_audit(1, DefaultLimit, 1)) = 1
  /\ get_audit(2, DefaultLimit, NULL) = <<>>

(* C22: once the tables exist no query raises, and for a key without a row  *)
(* is_banned and is_muted are false and get_warn_count is 0, for a user     *)
(* without a record get_audit is the empty sequence, and for a chat (or a   *)
(* whole ledger) without a ban row and without a warn row get_stats is      *)
(* (0, 0); on a ledger just initialised this holds for every key.           *)
C22_AbsenceIsNormal ==
  schema = Tables =>
    /\ \A u \in Users, c \in Chats \cup {NULL} :
         LET k == IF c = NULL THEN 0 ELSE c
         IN  /\ \A op \in {"is_banned", "is_muted", "get_warn_count",
                            "get_audit"} : ~QueryRaises(op, c)
             /\ ~StatsRaises(c)
             /\ (~\E r \in bans : r.chat_id = k /\ r.user_id = u)
                  => is_banned(u, c) = FALSE
             /\ (~\E r \in mutes : r.chat_id = k /\ r.user_id = u)
                  => is_muted(u, c) = FALSE
             /\ (~\E r \in warns : r.chat_id = k /\ r.user_id = u)
                  => get_warn_count(u, c) = 0
             /\ (~\E i \in 1..Len(audit) : audit[i].user_id = u)
                  => get_audit(u, DefaultLimit, c) = <<>>
    /\ \A c \in Chats :
         (~\E r \in bans \cup warns : r.chat_id = c) => get_stats(c) = <<0, 0>>
    /\ (bans = {} /\ warns = {}) => get_stats(NULL) = <<0, 0>>
    /\ (bans = {} /\ mutes = {} /\ warns = {} /\ audit = <<>>) =>
         \A u \in Users, c \in Chats \cup {NULL} :
           /\ ~is_banned(u, c) /\ ~is_muted(u, c)
           /\ get_warn_count(u, c) = 0
           /\ get_audit(u, DefaultLimit, c) = <<>>
           /\ get_stats(c) = <<0, 0>>

\* user 1 is banned, warned and on record in chat 1; the queries about user
\* 2 and about chat 0 find nothing
C22_Witness ==
  /\ schema = Tables /\ audit # <<>>
  /\ is_banned(1, 1) /\ get_warn_count(1, 1) = 1
  /\ ~is_banned(1, 0) /\ ~is_muted(2, 1) /\ get_warn_count(2, 1) = 0
  /\ get_audit(2, DefaultLimit, NULL) = <<>>
  /\ get_stats(0) = <<0, 0>>

(* C23: init_db can be called in every state; it creates the tables that   *)
(* are absent, in the order bans, warns, mutes, audit, and drops none; when *)
(* it returns the four tables exist; whether it returns or raises, every    *)
(* ban, mute, warn and audit row that was there is there unchanged and no   *)
(* row is added, so on a store that has its tables init_db changes nothing  *)
(* at all. (A table that does not exist has no rows.)                       *)
C23_InitIdempotent ==
  /\ [](ENABLED (init_db(4) /\ last'.status = "ok"))
  /\ []( /\ "bans" \notin schema => bans = {}
         /\ "mutes" \notin schema => mutes = {}
         /\ "warns" \notin schema => warns = {}
         /\ "audit" \notin schema => audit = <<>>)
  /\ [][(last'.op = "init_db" /\ nops' = nops /\ clock' = clock)
        => /\ schema \subseteq schema'
           /\ last'.status = "ok" => schema' = Tables
           /\ bans' = bans /\ mutes' = mutes /\ warns' = warns
           /\ audit' = audit
           /\ schema = Tables => dbvars' = dbvars]_vars

\* init_db has been called on a store that holds a ban, a warn and an audit
\* record
C23_Witness ==
  /\ last.op = "init_db" /\ last.status = "ok" /\ nops = 3
  /\ bans # {} /\ warns # {} /\ audit # <<>>

(* C24: the restriction state of a key is the pair (banned, muted), one of  *)
(* four values, and in every state of an initialised ledger, whichever of   *)
(* the four the key is in, each of ban, unban, mute and unmute on the key   *)
(* can be called and returns with its own axis set (ban, mute) or cleared   *)
(* (unban, unmute) and the other axis as it was: every value is reached     *)
(* from every other in at most two calls and none is terminal.              *)
C24_NoTerminalState ==
  (schema = Tables /\ nops < MaxOps) =>
    \A a \in CallArgs :
      LET u == a[1]
          c == a[2]
      IN  /\ <<is_banned(u, c), is_muted(u, c)>> \in BOOLEAN \X BOOLEAN
          /\ ENABLED (/\ ban_user(u, c, clock)
                      /\ last'.status = "ok"
                      /\ is_banned(u, c)'
                      /\ is_muted(u, c)' <=> is_muted(u, c))
          /\ ENABLED (/\ unban_user(u, c)
                      /\ last'.status = "ok"
                      /\ ~is_banned(u, c)'
                      /\ is_muted(u, c)' <=> is_muted(u, c))
          /\ ENABLED (/\ mute_user(u, c, clock)
                      /\ last'.status = "ok"
                      /\ is_muted(u, c)'
                      /\ is_banned(u, c)' <=> is_banned(u, c))
          /\ ENABLED (/\ unmute_user(u, c)
                      /\ last'.status = "ok"
                      /\ ~is_muted(u, c)'
                      /\ is_banned(u, c)' <=> is_banned(u, c))

\* key <<1, 1>> is banned and muted and a further call can be made on it
C24_Witness ==
  /\ schema = Tables /\ nops = 2
  /\ is_banned(1, 1) /\ is_muted(1, 1)
  /\ ~is_banned(1, 0) /\ ~is_muted(1, 0)

(* C29: a ban, unban, mute, unmute or warn called without chat_id leaves    *)
(* the tables exactly as the same call with chat_id = 0 would, returns what *)
(* it would, and touches no row but the one of key <<0, user_id>>; and      *)
(* is_banned, is_muted and get_warn_count without chat_id answer from the   *)
(* row of key <<0, user_id>>, as they do with chat_id = 0.                  *)
C29_OmittedChatIsZero ==
  /\ [](\A u \in Users :
          /\ is_banned(u, NULL) <=> \E r \in bans : r.chat_id = 0 /\ r.user_id = u
          /\ is_muted(u, NULL) <=> \E r \in mutes : r.chat_id = 0 /\ r.user_id = u
          /\ \A r \in warns : (r.chat_id = 0 /\ r.user_id = u)
                                  => get_warn_count(u, NULL) = r.count
          /\ (~\E r \in warns : r.chat_id = 0 /\ r.user_id = u)
               => get_warn_count(u, NULL) = 0
          /\ is_banned(u, NULL) <=> is_banned(u, 0)
          /\ is_muted(u, NULL) <=> is_muted(u, 0)
          /\ get_warn_count(u, NULL) = get_warn_count(u, 0))
  /\ [][(/\ nops' = nops + 1 /\ last'.op \in KeyedOps
         /\ last'.status = "ok" /\ last'.chat_id = NULL)
        => LET u == last'.user_id
               op == last'.op
               touched(old, new) == (old \ new) \cup (new \ old)
           IN  /\ \A r \in touched(bans, bans') \cup touched(mutes, mutes')
                            \cup touched(warns, warns') :
                    r.chat_id = 0 /\ r.user_id = u
               /\ audit' = audit
               /\ bans' = CASE op = "ban_user" -> StmtBan(bans, u, 0, clock')
                            [] op = "unban_user" -> StmtUnban(bans, u, 0)
                            [] OTHER -> bans
               /\ mutes' = CASE op = "mute_user" -> StmtMute(mutes, u, 0, clock')
                             [] op = "unmute_user" -> StmtUnmute(mutes, u, 0)
                             [] OTHER -> mutes
               /\ warns' = IF op = "warn_user"
                           THEN StmtWarn(warns, u, 0, WarnSelect(warns, u, 0))
                           ELSE warns
               /\ op = "warn_user" =>
                    last'.ret = WarnTotal(WarnSelect(warns, u, 0))
               /\ op = "ban_user" => \E r \in bans' : r.chat_id = 0 /\ r.user_id = u
               /\ op = "mute_user" => \E r \in mutes' : r.chat_id = 0 /\ r.user_id = u
               /\ op = "warn_user" => \E r \in warns' : r.chat_id = 0 /\ r.user_id = u
          ]_vars

\* user 1 was warned twice, the second time without chat_id: the call
\* returned 2 and the one row of key <<0, 1>> holds 2
C29_Witness ==
  /\ last.op = "warn_user" /\ last.status = "ok" /\ last.chat_id = NULL
  /\ last.ret = 2 /\ nops = 2
  /\ warns = {[chat_id |-> 0, user_id |-> 1, count |-> 2]}

(* C30: no step of the handler of a command whose sender is not in the     *)
(* admin list (or that has no sender) changes a ban, mute or warn row, and  *)
(* each either leaves the audit table as it was or - for /plaint - appends  *)
(* one record, with action "plaint" and the sender as admin_id.             *)
C30_OnlyAdminsMutate ==
  [][(/\ Started \/ ResumedStep
      /\ hlast'.kind = "command" /\ hlast'.sender \notin ADMINS)
     => LET n == Len(audit')
        IN  /\ schema' = schema
            /\ bans' = bans /\ mutes' = mutes /\ warns' = warns
            /\ \/ audit' = audit
               \/ /\ hlast'.cmd = "/plaint"
                  /\ n = Len(audit) + 1 /\ SubSeq(audit', 1, n - 1) = audit
                  /\ audit'[n].action = "plaint"
                  /\ audit'[n].admin_id = hlast'.sender]_vars

\* after a plaint was recorded, a /ban sent by a user who is no admin has
\* been turned down: its target is not banned and no record was added
C30_Witness ==
  /\ hlast.kind = "command" /\ hlast.cmd = "/ban"
  /\ hlast.sender # NULL /\ hlast.sender \notin ADMINS
  /\ hlast.stage = "rejected"
  /\ schema = Tables /\ ~IntFails(DB_PATH) /\ ~is_banned(2, DB_PATH)
  /\ Len(audit) = 1 /\ audit[1].action = "plaint"
  /\ audit[1].admin_id \notin ADMINS

(* C25: is_bad_message(text, []) is false for every text: absent, empty,    *)
(* or made of or ending with a line break.                                  *)
C25_EmptyListNeverMatches ==
  (verdict # "none" /\ in_banned = <<>>) => verdict = "false"

\* the entry is a raw pattern that re.compile does not accept by itself
MalformedRaw(token) ==
  StartsWithRe(token) /\ re_error(Tokens(SubSeq(token, 4, Len(token))))

(* C26: whatever the text - empty and absent included - a call with a list  *)
(* that holds a malformed raw pattern ends with the error of the            *)
(* compilation; it never returns false (nor true).                          *)
C26_MalformedPatternReported ==
  (/\ verdict # "none" /\ in_banned # NoList
   /\ \E t \in 1..Len(in_banned) : MalformedRaw(in_banned[t]))
  => verdict = "error"

\* the literal token occurs in the text at position i, compared without
\* regard to case, with a word boundary before it and after it (a position
\* with a word character - letter, digit, "_" - on exactly one side)
OccursAsWord(token, text, i) ==
  LET wordAt(p) == p >= 1 /\ p <= Len(text) /\ IsWordChar(text[p])
  IN  /\ i + Len(token) - 1 <= Len(text)
      /\ \A j \in 1..Len(token) : Lower(text[i + j - 1]) = Lower(token[j])
      /\ wordAt(i - 1) # wordAt(i)
      /\ wordAt(i + Len(token) - 1) # wordAt(i + Len(token))

(* C27: for a list of literal entries and a non-empty text, is_bad_message  *)
(* returns, and returns true exactly when one of the entries occurs in the  *)
(* text, character for character (special characters as themselves),        *)
(* ignoring case, with a word boundary on both sides; with the default list *)
(* 'That is a badword.' is flagged and 'badwording' is not.                 *)
C27_LiteralWholeWord ==
  LET banned == IF in_banned = NoList THEN BANNED_WORDS ELSE in_banned
  IN  (/\ verdict # "none" /\ in_text # NoText /\ in_text # <<>>
       /\ banned # <<>>
       /\ \A t \in 1..Len(banned) : ~StartsWithRe(banned[t]))
      => /\ verdict \in {"true", "false"}
         /\ (verdict = "true") <=>
              \E t \in 1..Len(banned), i \in 1..(Len(in_text) + 1) :
                OccursAsWord(banned[t], in_text, i)
         /\ (in_banned = NoList /\ in_text[1] = "T") => verdict = "true"
         /\ (in_banned = NoList /\ Len(in_text) = 10 /\ in_text[10] = "g")
              => verdict = "false"

\* the entry "a.b" has been found in "x A.B!"
C27_Witness ==
  /\ verdict = "true"
  /\ in_banned = << <<"a", ".", "b">> >>
  /\ in_text = <<"x", " ", "A", ".", "B", "!">>

\* the entry by itself matches somewhere in the text: a raw entry as the
\* pattern after "re:", a literal one as a whole word
TermMatches(token, text) ==
  IF StartsWithRe(token)
  THEN LET q == Tokens(SubSeq(token, 4, Len(token)))
       IN  ~re_error(q) /\ search(q, text)
  ELSE \E i \in 1..(Len(text) + 1) : OccursAsWord(token, text, i)

(* C28: for a non-empty text and a list of literal entries and well-formed *)
(* raw entries, is_bad_message returns true exactly when at least one entry *)
(* of the list matches somewhere in the text - a raw entry as the pattern   *)
(* it spells, unescaped and without added word boundaries, a literal entry  *)
(* as a whole word.                                                         *)
C28_AnyTermMatches ==
  (/\ verdict \in {"true", "false"} /\ in_text # NoText /\ in_text # <<>>
   /\ in_banned # NoList /\ in_banned # <<>>
   /\ \A t \in 1..Len(in_banned) : ~MalformedRaw(in_banned[t]))
  => ((verdict = "true") <=>
        \E t \in 1..Len(in_banned) : TermMatches(in_banned[t], in_text))

C32_NullChatRecord ==
  (last.op = "log_action" /\ last.status = "ok" /\ last.chat_id = NULL)
    => LET r == audit[Len(audit)]
           idsOf(res) == {res[i][1] : i \in 1..Len(res)}
       IN  /\ r.chat_id = NULL /\ r.chat_id # 0
           /\ r.user_id = last.user_id /\ r.action = last.action
           /\ r.user_id \in Users =>
                /\ r.id \in idsOf(get_audit(r.user_id, DefaultLimit, NULL))
                /\ \A c \in Chats :
                     r.id \notin idsOf(get_audit(r.user_id, DefaultLimit, c))

\* user 1 has a record in chat 0 and, from the call just made, one without
\* a chat: get_audit(1) returns both, get_audit(1, chat_id=0) the first only
C32_Witness ==
  /\ last.op = "log_action" /\ last.status = "ok" /\ last.chat_id = NULL
  /\ last.user_id = 1
  /\ Len(audit) = 2
  /\ audit[1].user_id = 1 /\ audit[1].chat_id = 0
  /\ audit[2].chat_id = NULL
  /\ Len(get_audit(1, DefaultLimit, NULL)) = 2
  /\ get_audit(1, DefaultLimit, 0) = <<AuditTuple(audit[1])>>
====
